---------------------------- MODULE Spec2Model ----------------------------
(***************************************************************************)
(* dataspec: the Spec composition and conformance engine of                *)
(* src/src/dataspec/base.py, as an interpreter over encoded Python values. *)
(*                                                                         *)
(* A Python value is a tagged tuple <<type, payload>>:                     *)
(*   <<"NoneType">>            None                                        *)
(*   <<"bool", b>>             True / False                                *)
(*   <<"int", n>>              an integer                                  *)
(*   <<"str", cs>>             a string, cs its sequence of characters     *)
(*   <<"list", es>>, <<"tuple", es>>   es the sequence of elements         *)
(*   <<"set", S>>              S the set of elements                       *)
(*   <<"dict", items>>         items the sequence of <<key, value>> pairs  *)
(*   <<"enum", E, name>>       the member `name` of enumeration type E     *)
(*   <<"tagged", tag, v>>      the pair (tag, v) built by any_spec         *)
(*   <<"Invalid">>             the INVALID sentinel                        *)
(* A validate() generator is the sequence of events of its full run:       *)
(*   <<"call", tag, v>>   the validate body / predicate of Spec tag ran    *)
(*   <<"conf", fn, v>>    a conformer function was invoked on v            *)
(*   <<"err", e>>         an ErrorDetails e was yielded                    *)
(*   <<"raise", exc>>     the generator died with exception exc (last)     *)
(***************************************************************************)
EXTENDS Integers, Sequences, FiniteSets, TLC

VARIABLES spec, value, op, result, call

\* the string format registry of factories.py, its lock, and the threads that
\* register formats and build string Specs; `acquired` is a history variable:
\* for every format name, the entry of the registration that took the lock last
VARIABLES _STR_FORMATS, _STR_FORMAT_LOCK, thread, acquired

fvars == <<_STR_FORMATS, _STR_FORMAT_LOCK, thread, acquired>>
vars == <<spec, value, op, result, call, _STR_FORMATS, _STR_FORMAT_LOCK, thread,
          acquired>>

(***************************************************************************)
(* Bounds of the model.                                                    *)
(***************************************************************************)
\* longest list drawn as an input value
MaxListLen == 2
\* most constituent Specs given to all(...) / any(...)
MaxSpecs == 2

(***************************************************************************)
(* Python values.                                                          *)
(***************************************************************************)
None == <<"NoneType">>
INVALID == <<"Invalid">>
PyBool(b) == <<"bool", b>>
PyInt(n) == <<"int", n>>
PyStr(cs) == <<"str", cs>>
PyList(es) == <<"list", es>>
PyTuple(es) == <<"tuple", es>>
PySet(S) == <<"set", S>>
PyDict(items) == <<"dict", items>>
\* an instance of a user's class: its attributes, as (name, value) pairs
PyObject(attrs) == <<"object", attrs>>
EnumMember(E, name) == <<"enum", E, name>>

TypeOf(v) == v[1]

\* some total order on a finite set, as a sequence (set iteration order)
RECURSIVE SetToSeq(_)
SetToSeq(S) ==
    IF S = {} THEN <<>>
    ELSE LET x == CHOOSE y \in S : TRUE IN <<x>> \o SetToSeq(S \ {x})

RECURSIVE SeqToSet(_)
SeqToSet(s) == IF s = <<>> THEN {} ELSE {Head(s)} \cup SeqToSet(Tail(s))

\* isinstance(v, tp); bool is a subclass of int, everything is an object
isinstance(v, tp) ==
    \/ TypeOf(v) = tp
    \/ tp = "object"
    \/ tp = "int" /\ TypeOf(v) = "bool"

\* hash(v) succeeds
RECURSIVE Hashable(_)
Hashable(v) ==
    CASE TypeOf(v) \in {"list", "set", "dict"} -> FALSE
      [] TypeOf(v) = "tuple" -> \A i \in 1..Len(v[2]) : Hashable(v[2][i])
      [] TypeOf(v) = "tagged" -> Hashable(v[3])
      [] OTHER -> TRUE

\* a == b in Python: True == 1 and False == 0, otherwise structural
PyEq(a, b) ==
    LET norm(x) == IF TypeOf(x) = "bool" THEN PyInt(IF x[2] THEN 1 ELSE 0) ELSE x
    IN norm(a) = norm(b)

\* len(v) succeeds
Sized(v) == TypeOf(v) \in {"str", "list", "tuple", "set", "dict"}

PyLen(v) == IF TypeOf(v) = "set" THEN Cardinality(v[2]) ELSE Len(v[2])

\* hasattr(o, k) and getattr(o, k), for the attribute names the model uses
\* (none of them is an attribute of a built-in value)
hasattr(o, k) == TypeOf(o) = "object" /\ \E i \in 1..Len(o[2]) : o[2][i][1] = k
getattr(o, k) == o[2][CHOOSE i \in 1..Len(o[2]) : o[2][i][1] = k][2]

\* iter(v) succeeds
Iterable(v) == TypeOf(v) \in {"str", "list", "tuple", "set", "dict"}

\* the elements iter(v) produces, in order
PyIter(v) ==
    CASE TypeOf(v) = "str" -> [i \in 1..Len(v[2]) |-> PyStr(<<v[2][i]>>)]
      [] TypeOf(v) = "dict" -> [i \in 1..Len(v[2]) |-> v[2][i][1]]
      [] TypeOf(v) = "set" -> SetToSeq(v[2])
      [] OTHER -> v[2]

\* cs occurs in ds as a contiguous run (str.__contains__)
IsSubstring(cs, ds) ==
    \E i \in 0..(Len(ds) - Len(cs)) : \A j \in 1..Len(cs) : ds[i + j] = cs[j]

\* `k in d`: "true", "false", or the name of the exception raised
PyContains(d, k) ==
    CASE TypeOf(d) = "dict" ->
           IF ~Hashable(k) THEN "TypeError"
           ELSE IF \E i \in 1..Len(d[2]) : PyEq(d[2][i][1], k) THEN "true" ELSE "false"
      [] TypeOf(d) = "set" ->
           IF ~Hashable(k) THEN "TypeError"
           ELSE IF \E e \in d[2] : PyEq(e, k) THEN "true" ELSE "false"
      [] TypeOf(d) \in {"list", "tuple"} ->
           IF \E i \in 1..Len(d[2]) : PyEq(d[2][i], k) THEN "true" ELSE "false"
      [] TypeOf(d) = "str" ->
           IF TypeOf(k) # "str" THEN "TypeError"
           ELSE IF IsSubstring(k[2], d[2]) THEN "true" ELSE "false"
      [] OTHER -> "TypeError"

\* d[k]: [val, exc] with exc = "" when the subscription succeeds
PyGetItem(d, k) ==
    CASE TypeOf(d) = "dict" ->
           IF ~Hashable(k) THEN [val |-> None, exc |-> "TypeError"]
           ELSE IF \E i \in 1..Len(d[2]) : PyEq(d[2][i][1], k)
           THEN [val |-> d[2][CHOOSE i \in 1..Len(d[2]) : PyEq(d[2][i][1], k)][2],
                 exc |-> ""]
           ELSE [val |-> None, exc |-> "KeyError"]
      [] TypeOf(d) \in {"list", "tuple", "str"} ->
           IF ~isinstance(k, "int") THEN [val |-> None, exc |-> "TypeError"]
           ELSE LET n == IF TypeOf(k) = "bool" THEN (IF k[2] THEN 1 ELSE 0) ELSE k[2]
                    i == IF n < 0 THEN Len(d[2]) + n + 1 ELSE n + 1
                IN IF i \in 1..Len(d[2])
                   THEN [val |-> IF TypeOf(d) = "str" THEN PyStr(<<d[2][i]>>) ELSE d[2][i],
                         exc |-> ""]
                   ELSE [val |-> None, exc |-> "IndexError"]
      [] OTHER -> [val |-> None, exc |-> "TypeError"]

(***************************************************************************)
(* Characters and the user-supplied functions the Specs are built from.    *)
(***************************************************************************)
LowerChars == {"a", "b"}
UpperChars == {"A", "B"}
DigitChars == {"1", "2"}

\* a str.upper that swaps the case
ToUpperChar_swapcase(c) ==
    CASE c = "a" -> "A" [] c = "b" -> "B" [] c = "A" -> "a" [] c = "B" -> "b"
      [] OTHER -> c
ToUpperChar(c) == CASE c = "a" -> "A" [] c = "b" -> "B" [] OTHER -> c
DigitValue(c) == CASE c = "1" -> 1 [] c = "2" -> 2 [] OTHER -> 0

RECURSIVE ParseDigits(_)
ParseDigits(cs) ==
    IF cs = <<>> THEN 0
    ELSE 10 * ParseDigits(SubSeq(cs, 1, Len(cs) - 1)) + DigitValue(cs[Len(cs)])

AllDigits(cs) == cs # <<>> /\ \A i \in 1..Len(cs) : cs[i] \in DigitChars

\* a predicate function applied to v: "true", "false" or the exception raised
PredApply(pred, v) ==
    CASE pred = "always_true" -> "true"
      [] pred = "str.isupper" ->
           IF TypeOf(v) # "str" THEN "TypeError"
           ELSE IF /\ \E i \in 1..Len(v[2]) : v[2][i] \in UpperChars
                   /\ \A i \in 1..Len(v[2]) : v[2][i] \notin LowerChars
                THEN "true" ELSE "false"
      [] pred = "str.isdigit" ->
           IF TypeOf(v) # "str" THEN "TypeError"
           ELSE IF AllDigits(v[2]) THEN "true" ELSE "false"
      [] pred = "is_positive" ->
           CASE TypeOf(v) = "int" -> IF v[2] > 0 THEN "true" ELSE "false"
             [] TypeOf(v) = "bool" -> IF v[2] THEN "true" ELSE "false"
             [] OTHER -> "TypeError"
      [] OTHER -> "false"

\* a conformer function applied to v: [val, exc], exc = "" when it returns
ConfApply(c, v) ==
    CASE c.fn = "str.upper" ->
           IF TypeOf(v) # "str" THEN [val |-> None, exc |-> "TypeError"]
           ELSE [val |-> PyStr([i \in 1..Len(v[2]) |-> ToUpperChar(v[2][i])]), exc |-> ""]
      [] c.fn = "int" ->
           CASE TypeOf(v) = "int" -> [val |-> v, exc |-> ""]
             [] TypeOf(v) = "bool" -> [val |-> PyInt(IF v[2] THEN 1 ELSE 0), exc |-> ""]
             [] TypeOf(v) = "str" ->
                  IF AllDigits(v[2]) THEN [val |-> PyInt(ParseDigits(v[2])), exc |-> ""]
                  ELSE [val |-> None, exc |-> "ValueError"]
             [] OTHER -> [val |-> None, exc |-> "TypeError"]
      [] c.fn = "parse_int" ->
           IF TypeOf(v) = "str" /\ AllDigits(v[2])
           THEN [val |-> PyInt(ParseDigits(v[2])), exc |-> ""]
           ELSE [val |-> INVALID, exc |-> ""]
      [] c.fn = "inc" ->
           CASE TypeOf(v) = "int" -> [val |-> PyInt(v[2] + 1), exc |-> ""]
             [] TypeOf(v) = "bool" -> [val |-> PyInt(IF v[2] THEN 2 ELSE 1), exc |-> ""]
             [] OTHER -> [val |-> None, exc |-> "TypeError"]
      [] c.fn = "default" -> [val |-> c.default, exc |-> ""]
      [] c.fn = "uuid.UUID" ->
           \* no string this short holds a UUID
           IF TypeOf(v) = "str" THEN [val |-> None, exc |-> "ValueError"]
           ELSE [val |-> None, exc |-> "AttributeError"]
      [] c.fn = "attrgetter" ->
           IF hasattr(v, c.attr) THEN [val |-> getattr(v, c.attr), exc |-> ""]
           ELSE [val |-> None, exc |-> "AttributeError"]
      [] OTHER -> [val |-> v, exc |-> ""]

(***************************************************************************)
(* ErrorDetails and the event stream of a validate() generator.            *)
(***************************************************************************)
NO_ERROR_PATH == <<"NO_ERROR_PATH">>

ErrorDetails(message, pred, v, via, path) ==
    [message |-> message, pred |-> pred, value |-> v, via |-> via, path |-> path]

\* ErrorDetails.with_details: prepend the tag to via and, if given, loc to path
with_details(e, tag, loc) ==
    [e EXCEPT !.via = <<tag>> \o @,
              !.path = IF loc = NO_ERROR_PATH THEN @ ELSE <<loc>> \o @]

Call(tag, v) == <<"call", tag, v>>
Conf(fn, v) == <<"conf", fn, v>>
ErrEv(e) == <<"err", e>>
RaiseEv(exc) == <<"raise", exc>>

IsErr(x) == x[1] = "err"
IsRaise(x) == x[1] = "raise"
IsStep(x) == x[1] \in {"call", "conf"}

Raised(ev) == ev # <<>> /\ IsRaise(ev[Len(ev)])
RaisedExc(ev) == ev[Len(ev)][2]
WithoutRaise(ev) == IF Raised(ev) THEN SubSeq(ev, 1, Len(ev) - 1) ELSE ev
ErrEvents(ev) == SelectSeq(ev, IsErr)
Steps(ev) == SelectSeq(ev, IsStep)
Errors(ev) == LET es == ErrEvents(ev) IN [i \in 1..Len(es) |-> es[i][2]]

\* _enrich_errors: every error of the stream gets the tag and location
_enrich_errors(ev, tag, loc) ==
    [i \in 1..Len(ev) |->
        IF IsErr(ev[i]) THEN ErrEv(with_details(ev[i][2], tag, loc)) ELSE ev[i]]

\* the result of a call: the value returned or the exception raised, and what ran
Ok(v, ev) == [val |-> v, exc |-> "", ev |-> ev]
Exc(e, ev) == [val |-> None, exc |-> e, ev |-> ev]


(***************************************************************************)
(* Spec objects (the attrs classes of base.py) as records.                 *)
(***************************************************************************)
NoTag == ""
NoConformer == [fn |-> "None"]
NoSpec == [kind |-> "None"]
NoType == "None"

PredicateSpec(tag, pred, conformer) ==
    [kind |-> "PredicateSpec", tag |-> tag, pred |-> pred, conformer |-> conformer]

ValidatorSpec(tag, validate_fn, conformer) ==
    [kind |-> "ValidatorSpec", tag |-> tag, validate |-> validate_fn,
     conformer |-> conformer]

CollSpec(tag, child, conformer, out_type, validate_coll) ==
    [kind |-> "CollSpec", tag |-> tag, spec |-> child, conformer |-> conformer,
     out_type |-> out_type, validate_coll |-> validate_coll]

_KeySpec(key, child, is_optional) ==
    [key |-> key, spec |-> child, is_optional |-> is_optional]

DictSpec(tag, keyspecs, conformer) ==
    [kind |-> "DictSpec", tag |-> tag, keyspecs |-> keyspecs, conformer |-> conformer]

ObjectSpec(tag, reqattrspecs, optattrspecs, conformer) ==
    [kind |-> "ObjectSpec", tag |-> tag, reqattrspecs |-> reqattrspecs,
     optattrspecs |-> optattrspecs, conformer |-> conformer]

SetSpec(tag, values, conformer) ==
    [kind |-> "SetSpec", tag |-> tag, values |-> values, conformer |-> conformer]

TupleSpec(tag, specs, conformer, namedtuple) ==
    [kind |-> "TupleSpec", tag |-> tag, specs |-> specs, conformer |-> conformer,
     namedtuple |-> namedtuple]

\* what construction returns when it raises
ConstructionError(exc) == [kind |-> "raise", exc |-> exc]

(***************************************************************************)
(* Enumeration types: the members in definition order, name and value.     *)
(***************************************************************************)
EnumMembers(E) ==
    CASE E = "Letter" -> << [name |-> PyStr(<<"A">>), value |-> PyStr(<<"a">>)],
                           [name |-> PyStr(<<"B">>), value |-> PyStr(<<"b">>)] >>
      [] E = "Shift" -> << [name |-> PyStr(<<"A">>), value |-> PyStr(<<"B">>)],
                           [name |-> PyStr(<<"B">>), value |-> PyInt(1)] >>
      [] OTHER -> <<>>

\* E(v): the member itself, else the member whose value equals v, else ValueError
EnumByValue(E, v) ==
    LET ms == EnumMembers(E) IN
    IF TypeOf(v) = "enum" /\ v[2] = E THEN [val |-> v, exc |-> ""]
    ELSE IF \E i \in 1..Len(ms) : PyEq(ms[i].value, v)
    THEN [val |-> EnumMember(E, ms[CHOOSE i \in 1..Len(ms) : PyEq(ms[i].value, v)].name),
          exc |-> ""]
    ELSE [val |-> None, exc |-> "ValueError"]

\* E[v]: the member named v, else KeyError; an unhashable v is a TypeError
EnumByName(E, v) ==
    LET ms == EnumMembers(E) IN
    IF ~Hashable(v) THEN [val |-> None, exc |-> "TypeError"]
    ELSE IF \E i \in 1..Len(ms) : ms[i].name = v
    THEN [val |-> EnumMember(E, v), exc |-> ""]
    ELSE [val |-> None, exc |-> "KeyError"]

(***************************************************************************)
(* Containers built from an iterable of elements: list(it), set(it), ...   *)
(***************************************************************************)
RECURSIVE DictFromPairs(_, _)
\* dict(it): every element must be an iterable of exactly two items
DictFromPairs(es, acc) ==
    IF es = <<>> THEN [val |-> PyDict(acc), exc |-> ""]
    ELSE LET e == Head(es) IN
         IF ~Iterable(e) THEN [val |-> None, exc |-> "TypeError"]
         ELSE IF PyLen(e) # 2 THEN [val |-> None, exc |-> "ValueError"]
         ELSE LET kv == PyIter(e) IN
              IF ~Hashable(kv[1]) THEN [val |-> None, exc |-> "TypeError"]
              ELSE DictFromPairs(Tail(es),
                       IF \E i \in 1..Len(acc) : PyEq(acc[i][1], kv[1])
                       THEN [i \in 1..Len(acc) |->
                               IF PyEq(acc[i][1], kv[1]) THEN <<acc[i][1], kv[2]>> ELSE acc[i]]
                       ELSE Append(acc, <<kv[1], kv[2]>>))

Construct(tp, es) ==
    CASE tp = "list" -> [val |-> PyList(es), exc |-> ""]
      [] tp = "tuple" -> [val |-> PyTuple(es), exc |-> ""]
      [] tp = "set" ->
           IF \E i \in 1..Len(es) : ~Hashable(es[i]) THEN [val |-> None, exc |-> "TypeError"]
           ELSE [val |-> PySet(SeqToSet(es)), exc |-> ""]
      [] tp = "dict" -> DictFromPairs(es, <<>>)
      [] OTHER -> [val |-> None, exc |-> "TypeError"]

\* str(generator): the generator's repr, no element is ever taken from it
GeneratorRepr == PyStr(<<"<generator>">>)


(***************************************************************************)
(* Validation: Spec.validate of every variant, as the event stream of the  *)
(* generator.                                                              *)
(***************************************************************************)
\* A call that Python resolves at run time: the validate method of a Spec, a
\* ValidatorFn, a Conformer.
RECURSIVE Invoke(_, _, _)

\* spec.validate(v)
validate(s, v) == Invoke("validate", s, v)

\* a ValidatorFn applied to v
validator_fn(f, v) == Invoke("validator", f, v)

\* a conformer called on v
call_conformer(c, v) == Invoke("conformer", c, v)

\* spec.is_valid(v), spec.validate_all(v), spec.conform_valid(v), spec.conform(v)
is_valid(s, v) == Invoke("is_valid", s, v)
validate_all(s, v) == Invoke("validate_all", s, v)
conform_valid(s, v) == Invoke("conform_valid", s, v)
conform(s, v) == Invoke("conform", s, v)

\* Spec.is_valid: next() on the generator, so only the stream up to its first
\* error (or exception) is ever run
FirstStop(ev) ==
    IF \E i \in 1..Len(ev) : ~IsStep(ev[i])
    THEN CHOOSE i \in 1..Len(ev) : ~IsStep(ev[i]) /\ \A j \in 1..(i - 1) : IsStep(ev[j])
    ELSE 0

Spec_is_valid(s, v) ==
    LET ev == validate(s, v)
        n == FirstStop(ev)
    IN IF n = 0 THEN Ok(PyBool(TRUE), ev)
       ELSE IF IsRaise(ev[n]) THEN Exc(ev[n][2], SubSeq(ev, 1, n - 1))
       ELSE Ok(PyBool(FALSE), SubSeq(ev, 1, n - 1))

\* Spec.validate_all: list(self.validate(v))
Spec_validate_all(s, v) ==
    LET ev == validate(s, v) IN
    IF Raised(ev) THEN Exc(RaisedExc(ev), Steps(ev))
    ELSE [val |-> Errors(ev), exc |-> "", ev |-> Steps(ev)]

\* r, with the events ev having run before it
After(ev, r) == [r EXCEPT !.ev = ev \o @]

\* Spec.conform_valid: the conformer, no validation
Spec_conform_valid(s, v) ==
    IF s.conformer.fn = "None" THEN Ok(v, <<>>) ELSE call_conformer(s.conformer, v)

\* Spec.conform: is_valid, then conform_valid
Spec_conform(s, v) ==
    LET ok == is_valid(s, v) IN
    IF ok.exc # "" THEN ok
    ELSE IF ok.val = PyBool(TRUE) THEN After(ok.ev, conform_valid(s, v))
    ELSE Ok(INVALID, ok.ev)

RECURSIVE coll_elements(_, _, _), dict_keys(_, _, _), tuple_elements(_, _, _)
RECURSIVE all_valid_from(_, _, _), any_valid_from(_, _, _, _), do_validate_from(_, _, _)
RECURSIVE kv_items(_, _, _), obj_attrs(_, _, _, _, _)

\* the ErrorDetails a pred_to_validator validator yields (no via, no path)
PredValidatorError(message, fn, v) ==
    <<ErrEv(ErrorDetails(message, <<"fn", fn>>, v, <<>>, <<>>))>>

\* PredicateSpec.validate
PredicateSpec_validate(s, v) ==
    LET r == PredApply(s.pred, v) IN
    CASE r = "true" -> <<>>
      [] r = "false" ->
           <<ErrEv(ErrorDetails("does not satisfy predicate", <<"fn", s.pred>>, v,
                                <<s.tag>>, <<>>))>>
      [] OTHER ->
           <<ErrEv(ErrorDetails("Exception occurred during Validation",
                                <<"spec", s.tag>>, v, <<>>, <<>>))>>

\* ValidatorSpec.validate: the validator's errors enriched with the tag; any
\* exception of the validator becomes one more ErrorDetails
ValidatorSpec_validate(s, v) ==
    LET inner == _enrich_errors(validator_fn(s.validate, v), s.tag, NO_ERROR_PATH) IN
    IF Raised(inner)
    THEN WithoutRaise(inner)
         \o <<ErrEv(ErrorDetails("Exception occurred during Validation",
                                 <<"spec", s.tag>>, v, <<s.tag>>, <<>>))>>
    ELSE inner

\* CollSpec.validate: collection-level validators, then every element
CollSpec_validate(s, v) ==
    LET pre == IF s.validate_coll.kind # "None"
               THEN _enrich_errors(validate(s.validate_coll, v), s.tag, NO_ERROR_PATH)
               ELSE <<>>
    IN IF Raised(pre) THEN pre
       ELSE IF ~Iterable(v) THEN pre \o <<RaiseEv("TypeError")>>
       ELSE pre \o coll_elements(s, PyIter(v), 1)

coll_elements(s, es, i) ==
    IF i > Len(es) THEN <<>>
    ELSE LET one == _enrich_errors(validate(s.spec, es[i]), s.tag, PyInt(i - 1)) IN
         IF Raised(one) THEN one ELSE one \o coll_elements(s, es, i + 1)

\* the error DictSpec.validate yields for a required key that is absent
MissingKeyError(s, keyspec, d) ==
    <<ErrEv(ErrorDetails("Mapping missing key", <<"spec", keyspec.spec.tag>>, d,
                         <<s.tag>>, <<keyspec.key>>))>>

\* one iteration of the loop over self._keyspecs.items() in DictSpec.validate
dict_key_step(s, keyspec, d) ==
    LET k == keyspec.key
        has == PyContains(d, k)
    IN CASE has = "true" ->
              LET item == PyGetItem(d, k) IN
              IF item.exc # "" THEN <<RaiseEv(item.exc)>>
              ELSE _enrich_errors(validate(keyspec.spec, item.val), s.tag, k)
         [] has = "false" ->
              IF keyspec.is_optional THEN <<>> ELSE MissingKeyError(s, keyspec, d)
         [] OTHER -> <<RaiseEv(has)>>

dict_keys(s, d, i) ==
    IF i > Len(s.keyspecs) THEN <<>>
    ELSE LET step == dict_key_step(s, s.keyspecs[i], d) IN
         IF Raised(step) THEN step ELSE step \o dict_keys(s, d, i + 1)

\* the exceptions the try block of DictSpec.validate catches
DictSpecCaught == {"AttributeError", "TypeError"}

\* DictSpec.validate
DictSpec_validate(s, d) ==
    LET body == dict_keys(s, d, 1) IN
    IF Raised(body) /\ RaisedExc(body) \in DictSpecCaught
    THEN WithoutRaise(body)
         \o <<ErrEv(ErrorDetails("Value is not a mapping type", <<"spec", s.tag>>, d,
                                 <<s.tag>>, <<>>))>>
    ELSE body

\* the loops of ObjectSpec.validate over the required (or the optional)
\* attribute Specs: attrspecs is a sequence of (name, Spec) pairs
obj_attrs(s, attrspecs, required, o, i) ==
    IF i > Len(attrspecs) THEN <<>>
    ELSE LET k == attrspecs[i][1]
             vspec == attrspecs[i][2]
             step == IF hasattr(o, k)
                     THEN _enrich_errors(validate(vspec, getattr(o, k)), s.tag, k)
                     ELSE IF required
                     THEN <<ErrEv(ErrorDetails("Object missing attribute",
                                               <<"spec", vspec.tag>>, o, <<s.tag>>, <<k>>))>>
                     ELSE <<>>
         IN IF Raised(step) THEN step
            ELSE step \o obj_attrs(s, attrspecs, required, o, i + 1)

\* ObjectSpec.validate
ObjectSpec_validate(s, o) ==
    LET req == obj_attrs(s, s.reqattrspecs, TRUE, o, 1) IN
    IF Raised(req) THEN req
    ELSE req \o obj_attrs(s, s.optattrspecs, FALSE, o, 1)

\* SetSpec.validate: `v not in self._values` hashes v
SetSpec_validate(s, v) ==
    IF ~Hashable(v) THEN <<RaiseEv("TypeError")>>
    ELSE IF \E x \in s.values : PyEq(x, v) THEN <<>>
    ELSE <<ErrEv(ErrorDetails("not in", <<"values", s.tag>>, v, <<s.tag>>, <<>>))>>

tuple_elements(s, es, i) ==
    IF i > Len(es) \/ i > Len(s.specs) THEN <<>>
    ELSE LET one == _enrich_errors(validate(s.specs[i], es[i]), s.tag, PyInt(i - 1)) IN
         IF Raised(one) THEN one ELSE one \o tuple_elements(s, es, i + 1)

\* TupleSpec.validate
TupleSpec_validate(s, t) ==
    LET not_tuple == <<ErrEv(ErrorDetails("Value is not a tuple type", <<"spec", s.tag>>,
                                          t, <<s.tag>>, <<>>))>>
    IN IF ~Sized(t) THEN not_tuple
       ELSE IF PyLen(t) # Len(s.specs)
       THEN <<ErrEv(ErrorDetails("Expected n values", <<"spec", s.tag>>, PyInt(PyLen(t)),
                                 <<s.tag>>, <<>>))>>
       ELSE LET body == tuple_elements(s, PyIter(t), 1) IN
            IF Raised(body) /\ RaisedExc(body) = "TypeError"
            THEN WithoutRaise(body) \o not_tuple
            ELSE body

\* Spec.validate, by variant
Spec_validate(s, v) ==
    <<Call(s.tag, v)>> \o
    CASE s.kind = "PredicateSpec" -> PredicateSpec_validate(s, v)
      [] s.kind = "ValidatorSpec" -> ValidatorSpec_validate(s, v)
      [] s.kind = "CollSpec" -> CollSpec_validate(s, v)
      [] s.kind = "DictSpec" -> DictSpec_validate(s, v)
      [] s.kind = "SetSpec" -> SetSpec_validate(s, v)
      [] s.kind = "TupleSpec" -> TupleSpec_validate(s, v)
      [] s.kind = "ObjectSpec" -> ObjectSpec_validate(s, v)

\* A plain AND, for comparison with _all_valid: every Spec validates e itself
\* and nothing is conformed in between.
RECURSIVE plain_and_from(_, _, _)
plain_and_from(specs, e, i) ==
    IF i > Len(specs) THEN <<>>
    ELSE LET ev == validate(specs[i], e) IN
         IF Raised(ev) THEN Steps(ev) \o <<RaiseEv(RaisedExc(ev))>>
         ELSE IF ErrEvents(ev) # <<>> THEN Steps(ev) \o ErrEvents(ev)
         ELSE Steps(ev) \o plain_and_from(specs, e, i + 1)

_all_valid_plain_and(specs, e) == plain_and_from(specs, e, 1)

\* _all_valid of all_spec: each Spec validates the value conformed by the ones
\* before it; the first Spec with errors yields them and ends the stream
all_valid_from(specs, e, i) ==
    IF i > Len(specs) THEN <<>>
    ELSE LET ev == validate(specs[i], e) IN
         IF Raised(ev) THEN Steps(ev) \o <<RaiseEv(RaisedExc(ev))>>
         ELSE IF ErrEvents(ev) # <<>> THEN Steps(ev) \o ErrEvents(ev)
         ELSE LET c == conform_valid(specs[i], e) IN
              IF c.exc # "" THEN Steps(ev) \o c.ev \o <<RaiseEv(c.exc)>>
              ELSE Steps(ev) \o c.ev \o all_valid_from(specs, c.val, i + 1)

_all_valid(specs, e) == all_valid_from(specs, e, 1)

\* _any_valid of any_spec: the first Spec without errors ends the stream with
\* nothing yielded; otherwise every Spec's errors, in order
any_valid_from(specs, e, i, errors) ==
    IF i > Len(specs) THEN errors
    ELSE LET ev == validate(specs[i], e) IN
         IF Raised(ev) THEN Steps(ev) \o <<RaiseEv(RaisedExc(ev))>>
         ELSE IF ErrEvents(ev) = <<>> THEN Steps(ev)
         ELSE Steps(ev) \o any_valid_from(specs, e, i + 1, errors \o ErrEvents(ev))

_any_valid(specs, e) == any_valid_from(specs, e, 1, <<>>)

\* do_validate of ValidatorSpec.from_validators: every validator in turn
do_validate_from(preds, v, i) ==
    IF i > Len(preds) THEN <<>>
    ELSE LET one == validator_fn(preds[i], v) IN
         IF Raised(one) THEN one ELSE one \o do_validate_from(preds, v, i + 1)

\* _kv_valid of kv_spec: every key against keyspec, every value against valspec
kv_items(f, d, i) ==
    IF i > Len(d[2]) THEN <<>>
    ELSE LET kerr == _enrich_errors(validate(f.keyspec, d[2][i][1]), f.tag, d) IN
         IF Raised(kerr) THEN kerr
         ELSE LET verr == _enrich_errors(validate(f.valspec, d[2][i][2]), f.tag,
                                         d[2][i][1])
              IN IF Raised(verr) THEN kerr \o verr
                 ELSE kerr \o verr \o kv_items(f, d, i + 1)

_kv_valid(f, d) ==
    LET body == IF TypeOf(d) # "dict" THEN <<RaiseEv("AttributeError")>>
                ELSE kv_items(f, d, 1)
    IN IF Raised(body) /\ RaisedExc(body) \in {"AttributeError", "TypeError"}
       THEN WithoutRaise(body)
            \o <<ErrEv(ErrorDetails("Value is not a mapping type", <<"fn", "_kv_valid">>,
                                    d, <<f.tag>>, <<>>))>>
       ELSE body

\* a nilable validator that yields the Spec's errors and nothing more
nil_or_pred_without_not_none(f, e) ==
    IF e = None THEN <<>>
    ELSE LET ev == validate(f.spec, e) IN
         IF Raised(ev) THEN Steps(ev) \o <<RaiseEv(RaisedExc(ev))>>
         ELSE Steps(ev) \o ErrEvents(ev)

\* nil_or_pred of nilable_spec: nothing for None, the Spec's errors and one
\* more otherwise
nil_or_pred(f, e) ==
    IF e = None THEN <<>>
    ELSE LET ev == validate(f.spec, e) IN
         IF Raised(ev) THEN Steps(ev) \o <<RaiseEv(RaisedExc(ev))>>
         ELSE IF ErrEvents(ev) # <<>>
         THEN Steps(ev) \o ErrEvents(ev)
              \o <<ErrEv(ErrorDetails("is not None", <<"fn", "nil_or_pred">>, e,
                                      <<>>, <<>>))>>
         ELSE Steps(ev)

\* the body of each ValidatorFn
ValidatorFn(f, v) ==
    CASE f.fn = "_all_valid" -> _all_valid(f.specs, v)
      [] f.fn = "_any_valid" -> _any_valid(f.specs, v)
      [] f.fn = "_kv_valid" -> _kv_valid(f, v)
      [] f.fn = "do_validate" -> do_validate_from(f.preds, v, 1)
      [] f.fn = "nil_or_pred" -> nil_or_pred(f, v)
      [] f.fn = "is_instance_of_type" ->
           IF isinstance(v, f.tp) THEN <<>>
           ELSE PredValidatorError("is not a", f.fn, v)
      [] f.fn = "coll_is_str" ->
           IF isinstance(v, "str") THEN PredValidatorError("is a string", f.fn, v)
           ELSE <<>>
      [] f.fn = "coll_has_max_length" ->
           IF ~Sized(v) THEN <<RaiseEv("TypeError")>>
           ELSE IF PyLen(v) > f.maxlength
                THEN PredValidatorError("exceeds max length", f.fn, v) ELSE <<>>
      [] f.fn = "coll_has_min_length" ->
           IF ~Sized(v) THEN <<RaiseEv("TypeError")>>
           ELSE IF PyLen(v) < f.minlength
                THEN PredValidatorError("does not meet minimum length", f.fn, v) ELSE <<>>
      [] f.fn = "coll_is_exactly_len" ->
           IF ~Sized(v) THEN <<RaiseEv("TypeError")>>
           ELSE IF PyLen(v) # f.count
                THEN PredValidatorError("length does not equal", f.fn, v) ELSE <<>>
      [] f.fn = "coll_is_type" ->
           IF isinstance(v, f.type_) THEN <<>>
           ELSE PredValidatorError("is not of type", f.fn, v)
      [] f.fn = "validate_positive" ->
           CASE PredApply("is_positive", v) = "true" -> <<>>
             [] PredApply("is_positive", v) = "false" ->
                  PredValidatorError("is not positive", f.fn, v)
             [] OTHER -> <<RaiseEv(PredApply("is_positive", v))>>
      [] f.fn = "is_str" ->
           IF isinstance(v, "str") THEN <<>>
           ELSE PredValidatorError("is not a string", f.fn, v)
      [] f.fn = "_str_is_uuid" ->
           \* uuid.UUID(s): no string this short holds a UUID
           IF TypeOf(v) # "str" THEN <<RaiseEv("AttributeError")>>
           ELSE <<ErrEv(ErrorDetails("String does not contain UUID", <<"fn", f.fn>>, v,
                                     <<>>, <<>>))>>
      [] f.fn = "validate_digits" ->
           CASE PredApply("str.isdigit", v) = "true" -> <<>>
             [] PredApply("str.isdigit", v) = "false" ->
                  PredValidatorError("is not digits", f.fn, v)
             [] OTHER -> <<RaiseEv(PredApply("str.isdigit", v))>>
      [] f.fn = "validate_upper" ->
           CASE PredApply("str.isupper", v) = "true" -> <<>>
             [] PredApply("str.isupper", v) = "false" ->
                  PredValidatorError("is not upper case", f.fn, v)
             [] OTHER -> <<RaiseEv(PredApply("str.isupper", v))>>


(***************************************************************************)
(* Conformance: Spec.conform / conform_valid and the conformers that the   *)
(* constructors build.  Every result is [val, exc, ev].                    *)
(***************************************************************************)
RECURSIVE do_conform_from(_, _, _), conform_coll_from(_, _, _, _, _)
RECURSIVE conform_mapping_from(_, _, _, _), conform_tuple_from(_, _, _, _)
RECURSIVE conform_any_from(_, _, _), kv_conform_from(_, _, _, _)

\* do_conform of compose_conformers: each conformer on the previous result,
\* stopping at the first INVALID
do_conform_from(conformers, v, i) ==
    IF i > Len(conformers) THEN Ok(v, <<>>)
    ELSE LET r == call_conformer(conformers[i], v) IN
         IF r.exc # "" \/ r.val = INVALID THEN r
         ELSE After(r.ev, do_conform_from(conformers, r.val, i + 1))

do_conform(conformers, v) == do_conform_from(conformers, v, 1)

\* what the container constructor does with one more element: "" or an exception
ElementFits(tp, e) ==
    CASE tp = "set" -> IF Hashable(e) THEN "" ELSE "TypeError"
      [] tp = "dict" ->
           IF ~Iterable(e) THEN "TypeError"
           ELSE IF PyLen(e) # 2 THEN "ValueError"
           ELSE IF ~Hashable(PyIter(e)[1]) THEN "TypeError" ELSE ""
      [] tp \in {"list", "tuple"} -> ""
      [] OTHER -> "TypeError"

conform_coll_from(c, tp, es, i, acc) ==
    IF i > Len(es) THEN LET built == Construct(tp, acc) IN
                        [val |-> built.val, exc |-> built.exc, ev |-> <<>>]
    ELSE LET r == conform(c.spec, es[i]) IN
         IF r.exc # "" THEN r
         ELSE IF ElementFits(tp, r.val) # "" THEN Exc(ElementFits(tp, r.val), r.ev)
         ELSE After(r.ev, conform_coll_from(c, tp, es, i + 1, Append(acc, r.val)))

\* conform_coll of CollSpec.from_val:
\*   (out_type or type(v))(spec.conform(e) for e in v)
conform_coll(c, v) ==
    LET tp == IF c.out_type # NoType THEN c.out_type ELSE TypeOf(v) IN
    IF ~Iterable(v) THEN Exc("TypeError", <<>>)
    ELSE IF tp = "str" THEN Ok(GeneratorRepr, <<>>)
    ELSE conform_coll_from(c, tp, PyIter(v), 1, <<>>)

\* a conformer that hands the input mapping back as it is
conform_mapping_as_given(c, d) == Ok(d, <<>>)

conform_mapping_from(c, d, i, acc) ==
    IF i > Len(c.keyspecs) THEN Ok(PyDict(acc), <<>>)
    ELSE LET keyspec == c.keyspecs[i]
             k == keyspec.key
             has == IF keyspec.is_optional THEN PyContains(d, k) ELSE "true"
         IN CASE has = "false" -> conform_mapping_from(c, d, i + 1, acc)
              [] has = "true" ->
                   LET item == PyGetItem(d, k) IN
                   IF item.exc # "" THEN Exc(item.exc, <<>>)
                   ELSE LET r == conform(keyspec.spec, item.val) IN
                        IF r.exc # "" THEN r
                        ELSE After(r.ev, conform_mapping_from(c, d, i + 1,
                                             Append(acc, <<k, r.val>>)))
              [] OTHER -> Exc(has, <<>>)

\* conform_mapping of DictSpec.from_val: a new dict over the Spec's keys
conform_mapping(c, d) == conform_mapping_from(c, d, 1, <<>>)

conform_tuple_from(c, es, i, acc) ==
    IF i > Len(es) \/ i > Len(c.specs)
    THEN IF c.namedtuple.kind = "None" THEN Ok(PyTuple(acc), <<>>)
         ELSE IF Len(acc) # Len(c.specs) THEN Exc("TypeError", <<>>)
         ELSE Ok(<<"namedtuple", c.namedtuple, acc>>, <<>>)
    ELSE LET r == conform(c.specs[i], es[i]) IN
         IF r.exc # "" THEN r
         ELSE After(r.ev, conform_tuple_from(c, es, i + 1, Append(acc, r.val)))

\* conform_tuple of TupleSpec.from_val
conform_tuple(c, v) ==
    IF ~Iterable(v) THEN Exc("TypeError", <<>>)
    ELSE conform_tuple_from(c, PyIter(v), 1, <<>>)

\* a conformer that looks the name up before the value
conform_enum_by_name_first(c, v) ==
    LET by_name == EnumByName(c.e, v) IN
    IF by_name.exc = "" THEN Ok(by_name.val, <<>>)
    ELSE IF by_name.exc # "KeyError" THEN Exc(by_name.exc, <<>>)
    ELSE LET by_value == EnumByValue(c.e, v) IN
         IF by_value.exc = "" THEN Ok(by_value.val, <<>>) ELSE Ok(INVALID, <<>>)

\* conform_enum of _enum_conformer: by value, then by name, else INVALID
conform_enum(c, v) ==
    LET by_value == EnumByValue(c.e, v) IN
    IF by_value.exc = "" THEN Ok(by_value.val, <<>>)
    ELSE LET by_name == EnumByName(c.e, v) IN
         IF by_name.exc = "" THEN Ok(by_name.val, <<>>)
         ELSE IF by_name.exc = "KeyError" THEN Ok(INVALID, <<>>)
         ELSE Exc(by_name.exc, <<>>)

\* what _conform_any returns for the Spec that accepted e
conform_any_winner(c, s, e) ==
    LET conformed == conform_valid(s, e) IN
    IF conformed.exc # "" THEN conformed
    ELSE IF conformed.val = INVALID THEN Exc("AssertionError", conformed.ev)
    ELSE LET outer == IF c.conformer.fn = "None" THEN Ok(conformed.val, <<>>)
                      ELSE call_conformer(c.conformer, conformed.val)
         IN IF outer.exc # "" THEN After(conformed.ev, outer)
            ELSE Ok(IF c.tag_conformed THEN <<"tagged", s.tag, outer.val>> ELSE outer.val,
                    conformed.ev \o outer.ev)

conform_any_from(c, e, i) ==
    IF i > Len(c.specs) THEN Ok(INVALID, <<>>)
    ELSE LET ev == validate(c.specs[i], e) IN
         IF Raised(ev) THEN Exc(RaisedExc(ev), Steps(ev))
         ELSE IF ErrEvents(ev) # <<>>
         THEN After(Steps(ev), conform_any_from(c, e, i + 1))
         ELSE After(Steps(ev), conform_any_winner(c, c.specs[i], e))

\* _conform_any of any_spec
_conform_any(c, e) == conform_any_from(c, e, 1)

kv_conform_from(c, items, i, acc) ==
    IF i > Len(items) THEN Ok(PyDict(acc), <<>>)
    ELSE LET k == IF c.conform_keys THEN conform(c.keyspec, items[i][1])
                  ELSE Ok(items[i][1], <<>>)
         IN IF k.exc # "" THEN k
            ELSE LET r == conform(c.valspec, items[i][2]) IN
                 IF r.exc # "" THEN After(k.ev, r)
                 ELSE IF ~Hashable(k.val) THEN Exc("TypeError", k.ev \o r.ev)
                 ELSE After(k.ev \o r.ev,
                            kv_conform_from(c, items, i + 1,
                                IF \E j \in 1..Len(acc) : PyEq(acc[j][1], k.val)
                                THEN [j \in 1..Len(acc) |->
                                        IF PyEq(acc[j][1], k.val) THEN <<acc[j][1], r.val>>
                                        ELSE acc[j]]
                                ELSE Append(acc, <<k.val, r.val>>)))

\* conform_mapping of kv_spec
kv_conform_mapping(c, d) ==
    IF TypeOf(d) # "dict" THEN Exc("AttributeError", <<>>)
    ELSE kv_conform_from(c, d[2], 1, <<>>)

\* conform_nilable of nilable_spec
conform_nilable(c, e) == IF e = None THEN Ok(e, <<>>) ELSE conform(c.spec, e)

\* conform_spec of Spec.compose_conformer: conformer(existing_conformer(v))
conform_spec(c, v) ==
    LET r == call_conformer(c.existing, v) IN
    IF r.exc # "" THEN r ELSE After(r.ev, call_conformer(c.conformer, r.val))

\* the body of each Conformer
Conformer(c, v) ==
    After(<<Conf(c.fn, v)>>,
          CASE c.fn = "do_conform" -> do_conform(c.conformers, v)
            [] c.fn = "conform_coll" -> conform_coll(c, v)
            [] c.fn = "conform_mapping" -> conform_mapping(c, v)
            [] c.fn = "conform_tuple" -> conform_tuple(c, v)
            [] c.fn = "conform_enum" -> conform_enum(c, v)
            [] c.fn = "_conform_any" -> _conform_any(c, v)
            [] c.fn = "kv_conform_mapping" -> kv_conform_mapping(c, v)
      [] c.fn = "conform_nilable" -> conform_nilable(c, v)
      [] c.fn = "conform_spec" -> conform_spec(c, v)
            [] OTHER -> LET r == ConfApply(c, v) IN
                        [val |-> r.val, exc |-> r.exc, ev |-> <<>>])

Invoke(method, self, v) ==
    CASE method = "validate" -> Spec_validate(self, v)
      [] method = "validator" -> ValidatorFn(self, v)
      [] method = "conformer" -> Conformer(self, v)
      [] method = "is_valid" -> Spec_is_valid(self, v)
      [] method = "validate_all" -> Spec_validate_all(self, v)
      [] method = "conform_valid" -> Spec_conform_valid(self, v)
      [] method = "conform" -> Spec_conform(self, v)


(***************************************************************************)
(* Construction.  A predicate-like value given to the constructors is a    *)
(* record [p |-> shape, ...]; construction returns a Spec record or        *)
(* ConstructionError(exc).                                                 *)
(***************************************************************************)
OptionalKey(k) == <<"OptionalKey", k>>
IsOptionalKey(k) == k[1] = "OptionalKey"

SetPred(values) == [p |-> "set", values |-> values]
EnumPred(E) == [p |-> "enum", e |-> E]
TuplePred(preds) == [p |-> "tuple", preds |-> preds]
ListPred(child, opts) == [p |-> "list", child |-> child, opts |-> opts]
DictPred(items) == [p |-> "dict", items |-> items]
SpecPred(s) == [p |-> "spec", spec |-> s]
TypePred(tp) == [p |-> "type", tp |-> tp]
FnPred(name, is_validator_fn) == [p |-> "fn", name |-> name, validator |-> is_validator_fn]
NonePred == [p |-> "None"]
OtherPred(tp) == [p |-> "other", tp |-> tp]

\* the options dict of a collection Spec; a key that is absent reads as None
NoOpts == [given |-> "absent"]
NotADict == [given |-> "other"]
Opts(allow_str, minlength, maxlength, count, kind, into) ==
    [given |-> "dict", allow_str |-> allow_str, minlength |-> minlength,
     maxlength |-> maxlength, count |-> count, kind |-> kind, into |-> into]
DefaultOpts == Opts(FALSE, None, None, None, NoType, NoType)

IsError(s) == s.kind = "raise"
FirstError(ss) == ss[CHOOSE i \in 1..Len(ss) : IsError(ss[i]) /\ \A j \in 1..(i - 1) : ~IsError(ss[j])]
AnyError(ss) == \E i \in 1..Len(ss) : IsError(ss[i])

\* `tag or default`
TagOr(tag, default) == IF tag = NoTag THEN default ELSE tag

\* compose_conformers: None for no conformer, the conformer itself for one,
\* do_conform over them otherwise
compose_conformers(conformers) ==
    LET given == SelectSeq(conformers, LAMBDA c : c.fn # "None") IN
    CASE Len(given) = 0 -> NoConformer
      [] Len(given) = 1 -> given[1]
      [] OTHER -> [fn |-> "do_conform", conformers |-> given]

\* f"is_{tp.__name__}"
TypeTag(tp) ==
    CASE tp = "str" -> "is_str" [] tp = "int" -> "is_int" [] tp = "list" -> "is_list"
      [] tp = "dict" -> "is_dict" [] tp = "NoneType" -> "is_NoneType"
      [] OTHER -> "is_object"

\* type_spec: the instance check as a validator
type_spec(tag, tp, conformer) ==
    ValidatorSpec(TagOr(tag, TypeTag(tp)), [fn |-> "is_instance_of_type", tp |-> tp],
                  conformer)

\* ValidatorSpec.from_validators
from_validators(tag, preds, conformer) ==
    IF Len(preds) = 1 THEN ValidatorSpec(tag, preds[1], conformer)
    ELSE ValidatorSpec(tag, [fn |-> "do_validate", preds |-> preds], conformer)

\* the check of one length option (maxlength, minlength, count): "" when it passes
LengthOptionError(n) ==
    IF n = None THEN ""
    ELSE IF ~isinstance(n, "int") THEN "TypeError"
    ELSE IF TypeOf(n) = "int" /\ n[2] < 0 THEN "ValueError"
    ELSE ""

\* option checks that let minlength > maxlength through
CollOptionsError_without_min_max(o) ==
    CASE LengthOptionError(o.maxlength) # "" -> LengthOptionError(o.maxlength)
      [] LengthOptionError(o.minlength) # "" -> LengthOptionError(o.minlength)
      [] LengthOptionError(o.count) # "" -> LengthOptionError(o.count)
      [] o.count # None /\ (o.minlength # None \/ o.maxlength # None) -> "ValueError"
      [] OTHER -> ""

\* the option checks of CollSpec.from_val, in the order the code makes them
CollOptionsError(o) ==
    CASE LengthOptionError(o.maxlength) # "" -> LengthOptionError(o.maxlength)
      [] LengthOptionError(o.minlength) # "" -> LengthOptionError(o.minlength)
      [] o.minlength # None /\ o.maxlength # None /\ o.minlength[2] > o.maxlength[2] ->
           "ValueError"
      [] LengthOptionError(o.count) # "" -> LengthOptionError(o.count)
      [] o.count # None /\ (o.minlength # None \/ o.maxlength # None) -> "ValueError"
      [] OTHER -> ""

\* the collection-level validators CollSpec.from_val appends, in order
CollValidators(o) ==
    (IF ~o.allow_str /\ o.kind = NoType THEN <<[fn |-> "coll_is_str"]>> ELSE <<>>)
    \o (IF o.maxlength # None
        THEN <<[fn |-> "coll_has_max_length", maxlength |-> o.maxlength[2]]>> ELSE <<>>)
    \o (IF o.minlength # None
        THEN <<[fn |-> "coll_has_min_length", minlength |-> o.minlength[2]]>> ELSE <<>>)
    \o (IF o.count # None
        THEN <<[fn |-> "coll_is_exactly_len", count |-> o.count[2]]>> ELSE <<>>)
    \o (IF o.kind # NoType THEN <<[fn |-> "coll_is_type", type_ |-> o.kind]>> ELSE <<>>)

\* Spec.with_tag: attr.evolve(self, tag=tag)
with_tag(s, tag) == [s EXCEPT !.tag = tag]

\* a with_conformer that composes the new conformer with the one in place
with_conformer_composed(s, conformer) ==
    [s EXCEPT !.conformer =
        IF @ = NoConformer \/ conformer = NoConformer THEN conformer
        ELSE [fn |-> "conform_spec", existing |-> @, conformer |-> conformer]]

\* Spec.with_conformer: attr.evolve(self, conformer=conformer)
with_conformer(s, conformer) == [s EXCEPT !.conformer = conformer]

RECURSIVE make_spec(_, _, _)
RECURSIVE DictKeySpecs(_, _)

\* CollSpec.from_val
CollSpec_from_val(tag, pred, conformer) ==
    LET child == make_spec(NoTag, pred.child, NoConformer)
        o == IF pred.opts.given = "absent" THEN DefaultOpts ELSE pred.opts
    IN IF IsError(child) THEN child
       ELSE IF pred.opts.given = "other" THEN ConstructionError("TypeError")
       ELSE IF CollOptionsError(o) # "" THEN ConstructionError(CollOptionsError(o))
       ELSE CollSpec(TagOr(tag, "coll"), child,
                     compose_conformers(<<[fn |-> "conform_coll", spec |-> child,
                                           out_type |-> o.into], conformer>>),
                     o.into,
                     IF CollValidators(o) # <<>>
                     THEN from_validators("coll", CollValidators(o), NoConformer)
                     ELSE NoSpec)

\* the loop of DictSpec.from_val over kvspec.items(): the _KeySpec of every key,
\* or the error of the first key that repeats or whose Spec cannot be built
DictKeySpecs(items, keyspecs) ==
    IF items = <<>> THEN [kind |-> "keyspecs", keyspecs |-> keyspecs]
    ELSE LET k == Head(items)[1]
             key == IF IsOptionalKey(k) THEN k[2] ELSE k
         IN IF \E i \in 1..Len(keyspecs) : keyspecs[i].key = key
            THEN ConstructionError("KeyError")
            ELSE LET child == make_spec(NoTag, Head(items)[2], NoConformer) IN
                 IF IsError(child) THEN child
                 ELSE DictKeySpecs(Tail(items),
                                   Append(keyspecs, _KeySpec(key, child, IsOptionalKey(k))))

\* DictSpec.from_val
DictSpec_from_val(tag, pred, conformer) ==
    LET built == DictKeySpecs(pred.items, <<>>) IN
    IF IsError(built) THEN built
    ELSE DictSpec(TagOr(tag, "map"), built.keyspecs,
                  compose_conformers(<<[fn |-> "conform_mapping",
                                        keyspecs |-> built.keyspecs], conformer>>))

\* re.sub(_MUNGE_NAMES, "_", tag): whitespace, '|' and '-' become '_'
Munge(tag) ==
    CASE tag = "first name" -> "first_name"
      [] tag = "first-name" -> "first_name"
      [] tag = "first|name" -> "first_name"
      [] tag = "user-profile" -> "user_profile"
      [] OTHER -> tag

\* a from_val that makes the record type whenever the children's tags differ
TupleSpec_from_val_named_without_tag(tag, pred, conformer) ==
    LET specs == [i \in 1..Len(pred.preds) |-> make_spec(NoTag, pred.preds[i], NoConformer)]
        spec_tags == [i \in 1..Len(specs) |-> Munge(specs[i].tag)]
        namedtuple_type ==
            IF Len(specs) = Cardinality(SeqToSet(spec_tags))
            THEN [kind |-> "namedtuple", name |-> Munge(TagOr(tag, "tuple")),
                  fields |-> spec_tags]
            ELSE [kind |-> "None"]
    IN IF AnyError(specs) THEN FirstError(specs)
       ELSE TupleSpec(TagOr(tag, "tuple"), specs,
                      compose_conformers(<<[fn |-> "conform_tuple", specs |-> specs,
                                            namedtuple |-> namedtuple_type], conformer>>),
                      namedtuple_type)

\* TupleSpec.from_val
TupleSpec_from_val(tag, pred, conformer) ==
    LET specs == [i \in 1..Len(pred.preds) |-> make_spec(NoTag, pred.preds[i], NoConformer)]
        spec_tags == [i \in 1..Len(specs) |-> Munge(specs[i].tag)]
        namedtuple_type ==
            IF tag # NoTag /\ Len(specs) = Cardinality(SeqToSet(spec_tags))
            THEN [kind |-> "namedtuple", name |-> Munge(tag), fields |-> spec_tags]
            ELSE [kind |-> "None"]
    IN IF AnyError(specs) THEN FirstError(specs)
       ELSE TupleSpec(TagOr(tag, "tuple"), specs,
                      compose_conformers(<<[fn |-> "conform_tuple", specs |-> specs,
                                            namedtuple |-> namedtuple_type], conformer>>),
                      namedtuple_type)

\* frozenset(chain.from_iterable([mem, mem.name, mem.value] for mem in pred))
EnumValues(E) ==
    LET ms == EnumMembers(E) IN
    UNION {{EnumMember(E, ms[i].name), ms[i].name, ms[i].value} : i \in 1..Len(ms)}

\* SetSpec.from_enum
SetSpec_from_enum(tag, E, conformer) ==
    SetSpec(TagOr(tag, E), EnumValues(E),
            compose_conformers(<<[fn |-> "conform_enum", e |-> E], conformer>>))

\* make_spec: the variant is picked by the first rule that matches the predicate
make_spec(tag, pred, conformer) ==
    CASE pred.p = "set" -> SetSpec(TagOr(tag, "set"), pred.values, conformer)
      [] pred.p = "enum" -> SetSpec_from_enum(tag, pred.e, conformer)
      [] pred.p = "tuple" -> TupleSpec_from_val(tag, pred, conformer)
      [] pred.p = "list" -> CollSpec_from_val(tag, pred, conformer)
      [] pred.p = "dict" -> DictSpec_from_val(tag, pred, conformer)
      [] pred.p = "spec" ->
           LET tagged == IF tag # NoTag THEN with_tag(pred.spec, tag) ELSE pred.spec
           IN IF conformer.fn # "None" THEN with_conformer(tagged, conformer)
              ELSE tagged
      [] pred.p = "type" -> type_spec(tag, pred.tp, conformer)
      [] pred.p = "fn" ->
           IF pred.validator
           THEN ValidatorSpec(TagOr(tag, pred.name), [fn |-> pred.name], conformer)
           ELSE PredicateSpec(TagOr(tag, pred.name), pred.name, conformer)
      [] pred.p = "None" -> type_spec(tag, "NoneType", conformer)
      [] OTHER -> ConstructionError("TypeError")

\* the loop of ObjectSpec.from_val over kvspec.items(): the required and the
\* optional attribute Specs so far, or the exception raised
RECURSIVE ObjectAttrSpecs(_, _, _)
ObjectAttrSpecs(items, reqattrs, optattrs) ==
    IF items = <<>>
    THEN [kind |-> "attrspecs", reqattrs |-> reqattrs, optattrs |-> optattrs]
    ELSE LET k == Head(items)[1]
             child == make_spec(NoTag, Head(items)[2], NoConformer)
             Put(attrs, name) ==
                 IF \E i \in 1..Len(attrs) : attrs[i][1] = name
                 THEN [i \in 1..Len(attrs) |->
                          IF attrs[i][1] = name THEN <<name, child>> ELSE attrs[i]]
                 ELSE Append(attrs, <<name, child>>)
         IN IF IsOptionalKey(k)
            THEN IF \E i \in 1..Len(reqattrs) : reqattrs[i][1] = k[2]
                 THEN ConstructionError("KeyError")
                 ELSE IF IsError(child) THEN child
                 ELSE ObjectAttrSpecs(Tail(items), reqattrs, Put(optattrs, k[2]))
            ELSE IF \E i \in 1..Len(optattrs) : optattrs[i][1] = k
                 THEN ConstructionError("KeyError")
                 ELSE IF IsError(child) THEN child
                 ELSE ObjectAttrSpecs(Tail(items), Put(reqattrs, k), optattrs)

\* ObjectSpec.from_val
ObjectSpec_from_val(tag, kvspec, conformer) ==
    LET built == ObjectAttrSpecs(kvspec.items, <<>>, <<>>) IN
    IF IsError(built) THEN built
    ELSE ObjectSpec(TagOr(tag, "obj"), built.reqattrs, built.optattrs, conformer)

\* obj_spec
obj_spec(tag, preds, conformer) ==
    IF Len(preds) # 1 THEN ConstructionError("ValueError")
    ELSE ObjectSpec_from_val(TagOr(tag, "object"), preds[1], conformer)

\* the Specs of a combinator's arguments
MakeAll(preds) == [i \in 1..Len(preds) |-> make_spec(NoTag, preds[i], NoConformer)]

\* all_spec
all_spec(tag, preds, conformer) ==
    LET specs == MakeAll(preds) IN
    CASE Len(preds) = 0 -> ConstructionError("ValueError")
      [] Len(preds) = 1 -> make_spec(tag, preds[1], conformer)
      [] AnyError(specs) -> FirstError(specs)
      [] OTHER ->
           ValidatorSpec(TagOr(tag, "all"), [fn |-> "_all_valid", specs |-> specs],
                         compose_conformers([i \in 1..Len(specs) |-> specs[i].conformer]
                                            \o <<conformer>>))

\* any_spec
any_spec(tag, preds, tag_conformed, conformer) ==
    LET specs == MakeAll(preds) IN
    CASE Len(preds) = 0 -> ConstructionError("ValueError")
      [] Len(preds) = 1 -> make_spec(tag, preds[1], conformer)
      [] AnyError(specs) -> FirstError(specs)
      [] OTHER ->
           ValidatorSpec(TagOr(tag, "any"), [fn |-> "_any_valid", specs |-> specs],
                         [fn |-> "_conform_any", specs |-> specs, conformer |-> conformer,
                          tag_conformed |-> tag_conformed])

\* kv_spec
kv_spec(tag, preds, conform_keys, conformer) ==
    LET specs == MakeAll(preds)
        t == TagOr(tag, "kv")
    IN CASE Len(preds) # 2 -> ConstructionError("ValueError")
         [] AnyError(specs) -> FirstError(specs)
         [] OTHER ->
              ValidatorSpec(t, [fn |-> "_kv_valid", tag |-> t, keyspec |-> specs[1],
                                valspec |-> specs[2]],
                            compose_conformers(<<[fn |-> "kv_conform_mapping",
                                                  keyspec |-> specs[1],
                                                  valspec |-> specs[2],
                                                  conform_keys |-> conform_keys],
                                                 conformer>>))

\* Spec.compose_conformer
compose_conformer(s, conformer) ==
    IF s.conformer.fn = "None" THEN with_conformer(s, conformer)
    ELSE with_conformer(s, [fn |-> "conform_spec", existing |-> s.conformer,
                            conformer |-> conformer])

\* "-".join(tags)
RECURSIVE JoinTags(_)
JoinTags(tags) ==
    IF Len(tags) = 1 THEN tags[1] ELSE tags[1] \o "-" \o JoinTags(Tail(tags))

\* str(k) of a mapping key: the string itself, or the repr of an OptionalKey
RECURSIVE JoinChars(_)
JoinChars(cs) == IF cs = <<>> THEN "" ELSE cs[1] \o JoinChars(Tail(cs))
KeyStr(k) ==
    CASE IsOptionalKey(k) -> "OptionalKey(key='" \o JoinChars(k[2][2]) \o "')"
      [] OTHER -> JoinChars(k[2])

\* map_pred of DictSpec.merge after the keyspecs ks of one more Spec: every key
\* (an OptionalKey when optional) with the Specs given for it so far
RECURSIVE MergeKeys(_, _)
MergeKeys(ks, acc) ==
    IF ks = <<>> THEN acc
    ELSE LET k == IF Head(ks).is_optional THEN OptionalKey(Head(ks).key) ELSE Head(ks).key
         IN MergeKeys(Tail(ks),
                IF \E i \in 1..Len(acc) : acc[i][1] = k
                THEN [i \in 1..Len(acc) |->
                        IF acc[i][1] = k THEN <<k, Append(acc[i][2], Head(ks).spec)>>
                        ELSE acc[i]]
                ELSE Append(acc, <<k, <<Head(ks).spec>>>>))

RECURSIVE MergeSpecs(_, _)
MergeSpecs(specs, acc) ==
    IF specs = <<>> THEN acc
    ELSE MergeSpecs(Tail(specs), MergeKeys(Head(specs).keyspecs, acc))

\* a merge that combines the Specs of a repeated key last input first
DictSpec_merge_last_first(tag, specs, conformer) ==
    LET map_pred == MergeSpecs(specs, <<>>)
        kvspec == [i \in 1..Len(map_pred) |->
                     <<map_pred[i][1],
                       SpecPred(all_spec(KeyStr(map_pred[i][1]),
                                         [j \in 1..Len(map_pred[i][2]) |->
                                             SpecPred(map_pred[i][2][Len(map_pred[i][2]) + 1 - j])],
                                         NoConformer))>>]
    IN DictSpec_from_val(
           TagOr(tag, "merge-of-" \o JoinTags([i \in 1..Len(specs) |-> specs[i].tag])),
           DictPred(kvspec), conformer)

\* DictSpec.merge
DictSpec_merge(tag, specs, conformer) ==
    LET map_pred == MergeSpecs(specs, <<>>)
        kvspec == [i \in 1..Len(map_pred) |->
                     <<map_pred[i][1],
                       SpecPred(all_spec(KeyStr(map_pred[i][1]),
                                         [j \in 1..Len(map_pred[i][2]) |->
                                             SpecPred(map_pred[i][2][j])],
                                         NoConformer))>>]
    IN DictSpec_from_val(
           TagOr(tag, "merge-of-" \o JoinTags([i \in 1..Len(specs) |-> specs[i].tag])),
           DictPred(kvspec), conformer)

\* merge_spec
merge_spec(tag, preds, conformer) ==
    LET specs == MakeAll(preds) IN
    CASE Len(preds) = 0 -> ConstructionError("ValueError")
      [] Len(preds) = 1 -> make_spec(tag, preds[1], conformer)
      [] AnyError(specs) -> FirstError(specs)
      [] \E i \in 1..Len(specs) : specs[i].kind # "DictSpec" ->
           ConstructionError("TypeError")
      [] OTHER -> DictSpec_merge(tag, specs, conformer)

\* nilable_spec
nilable_spec(tag, preds, conformer) ==
    IF Len(preds) # 1 THEN ConstructionError("ValueError")
    ELSE LET s == make_spec(NoTag, preds[1], NoConformer) IN
         IF IsError(s) THEN s
         ELSE ValidatorSpec(TagOr(tag, "nilable"), [fn |-> "nil_or_pred", spec |-> s],
                            compose_conformers(<<[fn |-> "conform_nilable", spec |-> s],
                                                 conformer>>))

\* every_spec
every_spec(tag, conformer) == PredicateSpec(tag, "always_true", conformer)

\* the conformer `lambda _: default` of default_spec
DefaultConformer(d) == [fn |-> "default", default |-> d]

\* default_spec: any_spec(tag or "default", pred, every_spec(conformer=...))
default_spec(tag, preds, default, conformer) ==
    IF Len(preds) # 1 THEN ConstructionError("ValueError")
    ELSE any_spec(TagOr(tag, "default"),
                  <<preds[1], SpecPred(every_spec("every", DefaultConformer(default)))>>,
                  FALSE, conformer)

\* a str given where a tag or a predicate is expected
StrArg(t) == [p |-> "str", s |-> t]

\* a tag_maybe that takes a leading string for a predicate
tag_maybe_without_tag(args) == [tag |-> NoTag, preds |-> args]

\* tag_maybe: a leading str is the tag, the rest are the predicates
tag_maybe(args) ==
    IF args[1].p = "str" THEN [tag |-> args[1].s, preds |-> Tail(args)]
    ELSE [tag |-> NoTag, preds |-> args]

\* a constructor called with positional arguments args: what it returns
Build(c) ==
    CASE c.fn = "with_tag" -> with_tag(c.spec, c.tag)
      [] c.fn = "with_conformer" -> with_conformer(c.spec, c.conformer)
      [] c.fn = "compose_conformer" -> compose_conformer(c.spec, c.conformer)
      [] c.args = <<>> -> ConstructionError("TypeError")
      [] OTHER ->
           LET a == tag_maybe(c.args) IN
           CASE c.fn = "make_spec" ->
                  IF Len(a.preds) # 1 THEN ConstructionError("TypeError")
                  ELSE make_spec(a.tag, a.preds[1], c.conformer)
             [] c.fn = "all_spec" -> all_spec(a.tag, a.preds, c.conformer)
             [] c.fn = "any_spec" -> any_spec(a.tag, a.preds, FALSE, c.conformer)
             [] c.fn = "kv_spec" -> kv_spec(a.tag, a.preds, FALSE, c.conformer)
             [] c.fn = "merge_spec" -> merge_spec(a.tag, a.preds, c.conformer)
             [] c.fn = "nilable_spec" -> nilable_spec(a.tag, a.preds, c.conformer)
             [] c.fn = "obj_spec" -> obj_spec(a.tag, a.preds, c.conformer)
             [] c.fn = "default_spec" ->
                  default_spec(a.tag, a.preds, c.default, c.conformer)


(***************************************************************************)
(* The Specs and the input values the model is run on.                     *)
(***************************************************************************)
Str0 == PyStr(<<>>)
StrA == PyStr(<<"a">>)
StrB == PyStr(<<"b">>)
StrUpA == PyStr(<<"A">>)
StrUpB == PyStr(<<"B">>)
Str1 == PyStr(<<"1">>)
StrAB == PyStr(<<"a", "b">>)
Str12 == PyStr(<<"1", "2">>)
StrId == PyStr(<<"i", "d">>)
StrZ == PyStr(<<"z">>)

UpperConformer == [fn |-> "str.upper"]
IntConformer == [fn |-> "int"]
ParseIntConformer == [fn |-> "parse_int"]
IncConformer == [fn |-> "inc"]

\* s.str-like: an instance check with an upper-casing conformer
UpperStr == make_spec("upper", TypePred("str"), UpperConformer)
\* any string; the conformer parses digits and returns INVALID for the rest
ParsedStr == make_spec("parsed", TypePred("str"), ParseIntConformer)
\* every_spec(conformer=lambda _: default)
EveryDefault == every_spec("every", DefaultConformer(PyInt(0)))

\* [int] with the option kind=list, and [int] with no option
ListOfIntKind == ListPred(TypePred("int"), [DefaultOpts EXCEPT !.kind = "list"])
ListOfInt == ListPred(TypePred("int"), NoOpts)

\* the predicate-like values the combinators are given
Leaves ==
    { TypePred("int"), TypePred("str"), FnPred("str.isupper", FALSE),
      SpecPred(UpperStr), SpecPred(ParsedStr), SpecPred(EveryDefault),
      ListOfInt, ListOfIntKind }

\* between two and MaxSpecs of them, in every order
LeafSeqs == UNION {[1..n -> Leaves] : n \in 2..MaxSpecs}

OuterConformers == {NoConformer, IncConformer}

AllSpecs == {all_spec(NoTag, ps, c) : ps \in LeafSeqs, c \in OuterConformers}

AnySpecs ==
    {any_spec(NoTag, ps, t, c) : ps \in LeafSeqs, t \in BOOLEAN, c \in OuterConformers}

\* lists of at most MaxListLen elements
ListElems == {PyInt(1), StrA}
Lists == {PyList(es) : es \in UNION {[1..n -> ListElems] : n \in 0..MaxListLen}}

Scalars == {None, PyInt(1), StrA, StrUpA, Str1}

CombinatorValues == Scalars \cup Lists

\* collection, tuple, key-value, set, enumeration and mapping Specs, and one
\* of each combinator
CollChildren == {TypePred("int"), TypePred("str"), SpecPred(UpperStr)}

CollOptions ==
    { NoOpts,
      [DefaultOpts EXCEPT !.allow_str = TRUE],
      [DefaultOpts EXCEPT !.into = "list"],
      [DefaultOpts EXCEPT !.into = "set"],
      [DefaultOpts EXCEPT !.kind = "list"],
      [DefaultOpts EXCEPT !.minlength = PyInt(1)] }

CollSpecs == {make_spec(NoTag, ListPred(c, o), NoConformer) : c \in CollChildren,
                                                              o \in CollOptions}

ShapeSpecs ==
    CollSpecs \cup
    { make_spec(NoTag, TuplePred(<<TypePred("int"), TypePred("str")>>), NoConformer),
      make_spec("pair", TuplePred(<<TypePred("int"), TypePred("str")>>), NoConformer),
      make_spec("pair", TuplePred(<<TypePred("int"), TypePred("int")>>), NoConformer),
      kv_spec(NoTag, <<TypePred("str"), TypePred("int")>>, FALSE, NoConformer),
      kv_spec(NoTag, <<SpecPred(UpperStr), TypePred("int")>>, TRUE, NoConformer),
      make_spec(NoTag, SetPred({StrA, PyInt(1)}), NoConformer),
      make_spec(NoTag, EnumPred("Letter"), NoConformer),
      make_spec(NoTag, DictPred(<< <<StrA, TypePred("int")>>,
                                   <<OptionalKey(StrB), SpecPred(UpperStr)>> >>),
                NoConformer),
      make_spec(NoTag, FnPred("str.isupper", FALSE), NoConformer),
      UpperStr,
      all_spec(NoTag, <<SpecPred(UpperStr), FnPred("str.isupper", FALSE)>>, NoConformer),
      any_spec(NoTag, <<TypePred("int"), SpecPred(UpperStr)>>, TRUE, NoConformer) }

Tuples == {PyTuple(l[2]) : l \in Lists}

ShapeValues ==
    Scalars \cup {StrAB} \cup Lists \cup Tuples
    \cup {PySet(S) : S \in SUBSET ListElems}
    \cup { PyDict(<<>>),
           PyDict(<< <<StrA, PyInt(1)>> >>),
           PyDict(<< <<StrA, PyInt(1)>>, <<StrB, StrA>> >>),
           PyDict(<< <<PyInt(1), StrA>> >>),
           PyDict(<< <<StrAB, PyInt(1)>> >>) }

\* mapping Specs over the keys "id" and "a", each key required or optional,
\* with scalar and nested children; and mappings nested in a list and a tuple
PairOfIntStr == TuplePred(<<TypePred("int"), TypePred("str")>>)
MapOfA == DictPred(<< <<StrA, TypePred("int")>> >>)

IdChildren == {TypePred("int"), SpecPred(UpperStr), ListOfInt, PairOfIntStr, MapOfA}
AChildren == {TypePred("int"), SpecPred(UpperStr), ListOfInt}

KeyItems(k, children) == {<<kk, c>> : kk \in {k, OptionalKey(k)}, c \in children}

MapPreds ==
    {DictPred(<<i1>>) : i1 \in KeyItems(StrId, IdChildren)}
    \cup {DictPred(<<i1, i2>>) : i1 \in KeyItems(StrId, IdChildren),
                                 i2 \in KeyItems(StrA, AChildren)}

NestedPreds ==
    {ListPred(DictPred(<< <<StrId, c>> >>), NoOpts) : c \in IdChildren}
    \cup {TuplePred(<<DictPred(<< <<StrId, ListOfInt>> >>), TypePred("int")>>),
          TuplePred(<<ListOfInt, TypePred("int")>>)}

MapSpecs == {make_spec(NoTag, p, NoConformer) : p \in MapPreds \cup NestedPreds}

\* the values found under the keys
IdValues ==
    {PyInt(1), StrA} \cup Lists
    \cup {PyTuple(<<PyInt(1), StrA>>), PyTuple(<<StrA, PyInt(1)>>), PyTuple(<<PyInt(1)>>)}
    \cup {PyDict(<<>>), PyDict(<< <<StrA, PyInt(1)>> >>), PyDict(<< <<StrA, StrA>> >>)}
AValues == {PyInt(1), StrA}

\* a mapping with or without "id", with or without "a", with or without a key
\* that no Spec declares
Entry(k, vs) == {<<>>} \cup {<< <<k, x>> >> : x \in vs}
Mappings ==
    {PyDict(i \o a \o z) : i \in Entry(StrId, IdValues), a \in Entry(StrA, AValues),
                           z \in Entry(StrZ, {PyInt(1)})}

\* subjects that are not mappings
NonMappings ==
    { None, PyInt(1), PyBool(TRUE), StrB, StrId,
      PyList(<<>>), PyList(<<StrId>>), PyTuple(<<>>), PyTuple(<<StrId, StrA>>),
      PySet({}), PySet({StrId}) }

SomeMappings ==
    { PyDict(<< <<StrId, PyList(<<PyInt(1), StrA>>)>> >>),
      PyDict(<< <<StrId, PyInt(1)>> >>),
      PyDict(<< <<StrA, PyInt(1)>> >>) }
NestedValues ==
    {PyList(<<d>>) : d \in SomeMappings}
    \cup {PyList(<<d, e>>) : d \in SomeMappings, e \in SomeMappings}
    \cup {PyTuple(<<d, x>>) : d \in SomeMappings, x \in {PyInt(1), StrA}}
    \cup {PyTuple(<<x, PyInt(1)>>) : x \in {PyInt(1), PyList(<<PyInt(1)>>), PyList(<<StrA>>)}}

MapValues == Mappings \cup NonMappings \cup NestedValues

\* Specs of the enumerations, untagged and tagged, and the subjects they meet:
\* the members, their names and values, and values that are none of these
EnumSpecs ==
    {make_spec(tag, EnumPred(E), NoConformer) : tag \in {NoTag, "letter"},
                                                E \in {"Letter", "Shift"}}

EnumSubjects ==
    {EnumMember(E, n) : E \in {"Letter", "Shift"}, n \in {PyStr(<<"A">>), PyStr(<<"B">>)}}
    \cup {PyStr(<<"A">>), PyStr(<<"B">>), PyStr(<<"C">>), StrA, StrB, StrAB, Str0,
          PyInt(1), PyInt(0), PyInt(2), PyBool(TRUE), PyBool(FALSE), None}
    \cup Lists \cup Tuples
    \cup {PySet({}), PyDict(<<>>), PyTuple(<<PyList(<<>>)>>)}

\* constructor calls: the option values a collection Spec may be given
LengthOptions == {None, PyInt(-1), PyInt(0), PyInt(1), PyInt(2), StrA}
OptionSets ==
    {[DefaultOpts EXCEPT !.minlength = mn, !.maxlength = mx, !.count = ct] :
        mn \in LengthOptions, mx \in LengthOptions, ct \in {None, PyInt(-1), PyInt(1), StrA}}
    \cup {NoOpts, NotADict}

\* mapping predicates over the keys "a" and "b", some with the key "a" given
\* both as required and as optional (a dict holds a key once)
KeyPreds == {<<k, p>> : k \in {StrA, OptionalKey(StrA), StrB},
                        p \in {TypePred("int"), SpecPred(UpperStr)}}
DictPreds ==
    {DictPred(<<i>>) : i \in KeyPreds}
    \cup {DictPred(<<ij[1], ij[2]>>) : ij \in {x \in KeyPreds \X KeyPreds : x[1][1] # x[2][1]}}

\* the arguments of the combinators: up to MaxSpecs + 1 predicates, with or
\* without a leading tag
ArgPreds ==
    { TypePred("int"),
      DictPred(<< <<StrA, TypePred("int")>> >>),
      DictPred(<< <<OptionalKey(StrA), TypePred("str")>> >>),
      DictPred(<< <<StrA, FnPred("is_positive", FALSE)>>, <<StrB, TypePred("str")>> >>) }
ArgSeqs == UNION {[1..n -> ArgPreds] : n \in 0..(MaxSpecs + 1)}
Combinators ==
    {"make_spec", "all_spec", "any_spec", "kv_spec", "merge_spec", "nilable_spec",
     "default_spec"}

CallOf(fn, args) ==
    [fn |-> fn, args |-> args, conformer |-> NoConformer, default |-> PyInt(0)]

BuildCalls ==
    {CallOf("make_spec", <<ListPred(TypePred("int"), o)>>) : o \in OptionSets}
    \cup {CallOf("make_spec", <<p>>) : p \in DictPreds}
    \cup {CallOf("make_spec", <<DictPred(<< <<StrA, ListPred(TypePred("int"), o)>> >>)>>) :
            o \in {[DefaultOpts EXCEPT !.minlength = PyInt(2), !.maxlength = PyInt(1)],
                   [DefaultOpts EXCEPT !.minlength = PyInt(1), !.maxlength = PyInt(2)]}}
    \cup {CallOf(fn, args) : fn \in Combinators, args \in ArgSeqs}
    \cup {CallOf(fn, <<StrArg("t")>> \o args) : fn \in Combinators, args \in ArgSeqs}

BuildValues ==
    { None, PyInt(1), PyList(<<PyInt(1), PyInt(1)>>),
      PyDict(<< <<StrA, PyInt(1)>>, <<StrB, StrA>> >>) }

\* one predicate of every kind make_spec tells apart, a number and a string
\* among them
MakePreds ==
    { SetPred({StrA, PyInt(1)}), EnumPred("Letter"),
      TuplePred(<<TypePred("int"), TypePred("str")>>), ListOfInt, MapOfA,
      SpecPred(UpperStr), SpecPred(ParsedStr),
      SpecPred(make_spec(NoTag, TypePred("int"), NoConformer)),
      SpecPred(make_spec(NoTag, ListOfInt, IncConformer)),
      TypePred("int"), TypePred("str"),
      FnPred("str.isupper", FALSE), FnPred("is_positive", FALSE),
      FnPred("validate_positive", TRUE),
      NonePred, OtherPred("int"), StrArg("b") }

\* make_spec with and without a leading tag, with and without a conformer, on
\* one predicate, on none and on two; and the methods that derive a Spec from
\* an existing one
EvolvedSpecs == {pr.spec : pr \in {x \in MakePreds : x.p = "spec"}}

\* collection predicates with every combination of allow_str, kind, a length
\* bound and into
StrOptions ==
    {[DefaultOpts EXCEPT !.allow_str = a, !.kind = k, !.minlength = mn, !.into = i] :
        a \in BOOLEAN, k \in {NoType, "list", "str"}, mn \in {None, PyInt(1)},
        i \in {NoType, "list"}}
    \cup {NoOpts}
StrListPreds ==
    {ListPred(c, o) : c \in {TypePred("str"), FnPred("str.isupper", FALSE)},
                      o \in StrOptions}

\* tuple predicates whose children's tags are distinct, equal, or equal only
\* once normalized
FirstName == SpecPred(make_spec("first name", TypePred("str"), UpperConformer))
First_Name == SpecPred(make_spec("first-name", TypePred("str"), NoConformer))
TuplePreds ==
    {TuplePred(<<a, b>>) : a \in {FirstName, TypePred("int")},
                           b \in {FirstName, First_Name, TypePred("int")}}

MakeCalls ==
    {CallOf("make_spec", <<pr>>) : pr \in StrListPreds \cup TuplePreds}
    \cup {CallOf("make_spec", <<StrArg("user-profile"), pr>>) : pr \in TuplePreds}
    \cup
    {[CallOf("make_spec", args) EXCEPT !.conformer = c] :
        args \in {<<pr>> : pr \in MakePreds}
                 \cup {<<StrArg("t"), pr>> : pr \in MakePreds}
                 \cup {<<>>, <<TypePred("int"), TypePred("str")>>,
                        <<StrArg("t"), TypePred("int"), TypePred("str")>>},
        c \in {NoConformer, IncConformer}}
    \cup {[fn |-> "with_tag", spec |-> s, tag |-> "t", conformer |-> NoConformer,
           args |-> <<>>, default |-> None] : s \in EvolvedSpecs}
    \cup {[fn |-> fn, spec |-> s, tag |-> NoTag, conformer |-> c,
           args |-> <<>>, default |-> None] :
             fn \in {"with_conformer", "compose_conformer"}, s \in EvolvedSpecs,
             c \in {IncConformer, UpperConformer}}
    \cup {[fn |-> "with_conformer", spec |-> s, tag |-> NoTag, conformer |-> NoConformer,
           args |-> <<>>, default |-> None] : s \in EvolvedSpecs}

MakeValues ==
    {None, PyInt(1), Str0, StrA, StrUpA, StrAB, PyList(<<PyInt(1)>>)}
    \cup {PyTuple(<<a, b>>) : a \in {StrA, PyInt(1)}, b \in {StrA, PyInt(1)}}

\* object Specs over the attributes "a" and "b", with and without a conformer,
\* and the objects and other values they meet
AttrGetter(k) == [fn |-> "attrgetter", attr |-> k]
ObjPreds ==
    { DictPred(<< <<StrA, TypePred("int")>> >>),
      DictPred(<< <<StrA, SpecPred(UpperStr)>> >>),
      DictPred(<< <<StrA, TypePred("int")>>, <<OptionalKey(StrB), TypePred("str")>> >>),
      DictPred(<< <<StrA, ListOfInt>>, <<StrB, TypePred("str")>> >>),
      DictPred(<< <<StrA, TypePred("int")>>, <<OptionalKey(StrA), TypePred("str")>> >>) }
ObjCalls ==
    {[CallOf("obj_spec", args) EXCEPT !.conformer = c] :
        args \in {<<pr>> : pr \in ObjPreds} \cup {<<StrArg("t"), pr>> : pr \in ObjPreds}
                 \cup {<<StrArg("t")>>},
        c \in {NoConformer, AttrGetter(StrA), AttrGetter(StrB)}}
AttrValues == {PyInt(1), StrA, PyList(<<PyInt(1)>>)}
ObjValues ==
    {PyObject(a \o b) : a \in Entry(StrA, AttrValues), b \in Entry(StrB, AttrValues)}
    \cup {None, PyInt(1), PyDict(<< <<StrA, PyInt(1)>> >>)}

\* nilable and default around one Spec of every shape
WrapCalls ==
    {CallOf(fn, <<SpecPred(s)>>) : fn \in {"nilable_spec", "default_spec"},
                                   s \in ShapeSpecs}

(***************************************************************************)
(* The registry of string formats (factories.py): _STR_FORMATS maps a      *)
(* format name to its StrFormat entry, NoFormat for a name it does not     *)
(* hold; _STR_FORMAT_LOCK is Unlocked, or the thread that holds it.         *)
(***************************************************************************)
\* the threads: both register formats, the second also builds string Specs
Threads == {"t1", "t2"}
Builders == {"t2"}

StrFormat(validate_fn, conformer) == [validate |-> validate_fn, conformer |-> conformer]
NoFormat == [validate |-> [fn |-> "None"], conformer |-> [fn |-> "None"]]
Unlocked == "unlocked"

FormatNames == {"uuid", "digits"}

\* what the registry holds for these names once factories.py is imported
ImportedFormats ==
    [n \in FormatNames |->
        IF n = "uuid" THEN StrFormat([fn |-> "_str_is_uuid"], [fn |-> "uuid.UUID"])
        ELSE NoFormat]

\* the formats users register: a validator with and without a conformer
UserFormats ==
    { StrFormat([fn |-> "validate_digits"], [fn |-> "int"]),
      StrFormat([fn |-> "validate_upper"], [fn |-> "None"]) }

\* a thread outside register_str_format and str_spec
Idle ==
    [pc |-> "idle", fn |-> "", tag |-> "", f |-> [fn |-> "None"],
     conformer |-> [fn |-> "None"], kw |-> "", fmt |-> NoFormat, exc |-> ""]

\* nothing touches the registry: it stays as imported
NoThreads ==
    /\ _STR_FORMATS = ImportedFormats
    /\ _STR_FORMAT_LOCK = Unlocked
    /\ thread = [t \in Threads |-> Idle]
    /\ acquired = ImportedFormats

(***************************************************************************)
(* The state machine: a Spec, built once, and a value; every operation of  *)
(* the Spec interface can be called on them, any number of times.          *)
(***************************************************************************)
NoResult == [val |-> None, exc |-> "", ev |-> <<>>]

\* no constructor call is on record: the Spec is given
NoCall == [fn |-> "None"]

\* spec is a Spec: construction has returned it
IsSpec(s) == s.kind \notin {"None", "raise"}

InitWith(specs, values) ==
    /\ call = NoCall
    /\ spec \in specs
    /\ value \in values
    /\ op = ""
    /\ result = NoResult
    /\ NoThreads

\* a constructor is called: it returns a Spec or raises
BuildSpec ==
    /\ call # NoCall /\ op = ""
    /\ op' = "construct"
    /\ LET built == Build(call) IN
       /\ spec' = IF IsError(built) THEN NoSpec ELSE built
       /\ result' = [val |-> None, exc |-> IF IsError(built) THEN built.exc ELSE "",
                     ev |-> <<>>]
    /\ UNCHANGED <<call, value>>
    /\ UNCHANGED fvars

\* spec.validate_all(value)
ValidateAll ==
    /\ IsSpec(spec)
    /\ op' = "validate_all"
    /\ result' = validate_all(spec, value)
    /\ UNCHANGED <<spec, value, call>>
    /\ UNCHANGED fvars

\* spec.is_valid(value)
IsValid ==
    /\ IsSpec(spec)
    /\ op' = "is_valid"
    /\ result' = is_valid(spec, value)
    /\ UNCHANGED <<spec, value, call>>
    /\ UNCHANGED fvars

\* spec.conform(value)
Conform ==
    /\ IsSpec(spec)
    /\ op' = "conform"
    /\ result' = conform(spec, value)
    /\ UNCHANGED <<spec, value, call>>
    /\ UNCHANGED fvars

\* spec.conform_valid(value)
ConformValid ==
    /\ IsSpec(spec)
    /\ op' = "conform_valid"
    /\ result' = conform_valid(spec, value)
    /\ UNCHANGED <<spec, value, call>>
    /\ UNCHANGED fvars

Next == ValidateAll \/ IsValid \/ Conform \/ ConformValid

InitAll == InitWith(AllSpecs, CombinatorValues)
SpecAll == InitAll /\ [][Next]_vars

InitAny == InitWith(AnySpecs, CombinatorValues)
SpecAny == InitAny /\ [][Next]_vars

InitShape == InitWith(ShapeSpecs, ShapeValues)
SpecShape == InitShape /\ [][Next]_vars

InitMap == InitWith(MapSpecs, MapValues)
SpecMap == InitMap /\ [][Next]_vars

InitEnum == InitWith(EnumSpecs, EnumSubjects)
SpecEnum == InitEnum /\ [][Next]_vars

\* constructor calls and what becomes of the Specs they return
InitBuild ==
    /\ call \in BuildCalls
    /\ spec = NoSpec
    /\ value \in BuildValues
    /\ op = ""
    /\ result = NoResult
    /\ NoThreads
NextBuild == BuildSpec \/ Next
SpecBuild == InitBuild /\ [][NextBuild]_vars

\* make_spec on every kind of predicate, and the Specs derived from Specs
InitMake ==
    /\ call \in MakeCalls
    /\ spec = NoSpec
    /\ value \in MakeValues
    /\ op = ""
    /\ result = NoResult
    /\ NoThreads
SpecMake == InitMake /\ [][NextBuild]_vars

\* object Specs are built, then used on objects
InitObj ==
    /\ call \in ObjCalls
    /\ spec = NoSpec
    /\ value \in ObjValues
    /\ op = ""
    /\ result = NoResult
    /\ NoThreads
SpecObj == InitObj /\ [][NextBuild]_vars

\* nilable(S) and default(S) are built, then used on a value
InitWrap ==
    /\ call \in WrapCalls
    /\ spec = NoSpec
    /\ value \in ShapeValues
    /\ op = ""
    /\ result = NoResult
    /\ NoThreads
SpecWrap == InitWrap /\ [][NextBuild]_vars

(***************************************************************************)
(* Threads in register_str_format and in str_spec.  One step is one access *)
(* to shared state: taking the lock, the statement inside the `with`,      *)
(* releasing the lock, and the rest of str_spec, which is thread-local.    *)
(***************************************************************************)
\* Lock.acquire() that does not wait for the lock to be free
CanAcquire_without_waiting(lock) == TRUE

\* Lock.acquire() returns only when the lock is free
CanAcquire(lock) == lock = Unlocked

\* _STR_FORMATS[tag] = StrFormat(f, conformer=conformer)
RegistryStore(formats, tag, f, conformer) ==
    [formats EXCEPT ![tag] = StrFormat(f, conformer)]

\* a lookup that answers with the entry the format had at import
str_spec_lookup_at_import(formats, name) ==
    IF ImportedFormats[name] = NoFormat THEN [fmt |-> NoFormat, exc |-> "KeyError"]
    ELSE [fmt |-> ImportedFormats[name], exc |-> ""]

\* _STR_FORMATS[format_] / _STR_FORMATS[conform_format]
str_spec_lookup(formats, name) ==
    IF formats[name] = NoFormat THEN [fmt |-> NoFormat, exc |-> "KeyError"]
    ELSE [fmt |-> formats[name], exc |-> ""]

\* what str_spec returns once it has read the format: format_ takes the
\* validator only, conform_format the validator and the conformer
str_spec(tag, kw, fmt, conformer) ==
    from_validators(tag, <<[fn |-> "is_str"], fmt.validate>>,
                    IF kw = "conform_format"
                    THEN compose_conformers(<<fmt.conformer, conformer>>)
                    ELSE conformer)

\* thread t calls register_str_format(tag, conformer=conformer)(f)
CallRegister(t) ==
    /\ thread[t].pc = "idle"
    /\ \E n \in FormatNames, e \in UserFormats :
         thread' = [thread EXCEPT ![t] =
                       [Idle EXCEPT !.pc = "acquire", !.fn = "register_str_format",
                                    !.tag = n, !.f = e.validate,
                                    !.conformer = e.conformer]]
    /\ UNCHANGED <<spec, value, op, result, call, _STR_FORMATS, _STR_FORMAT_LOCK,
                   acquired>>

\* thread t calls str_spec(format_=name) or str_spec(conform_format=name)
CallStrSpec(t) ==
    /\ thread[t].pc = "idle"
    /\ \E n \in FormatNames, kw \in {"format_", "conform_format"} :
         thread' = [thread EXCEPT ![t] =
                       [Idle EXCEPT !.pc = "acquire", !.fn = "str_spec", !.tag = n,
                                    !.kw = kw]]
    /\ UNCHANGED <<spec, value, op, result, call, _STR_FORMATS, _STR_FORMAT_LOCK,
                   acquired>>

\* with _STR_FORMAT_LOCK: the thread enters
Acquire(t) ==
    /\ thread[t].pc = "acquire"
    /\ CanAcquire(_STR_FORMAT_LOCK)
    /\ _STR_FORMAT_LOCK' = t
    /\ thread' = [thread EXCEPT ![t].pc =
                     IF thread[t].fn = "register_str_format" THEN "store" ELSE "lookup"]
    /\ acquired' = IF thread[t].fn = "register_str_format"
                   THEN [acquired EXCEPT ![thread[t].tag] =
                            StrFormat(thread[t].f, thread[t].conformer)]
                   ELSE acquired
    /\ UNCHANGED <<spec, value, op, result, call, _STR_FORMATS>>

\* the body of the `with` in create_str_format
Store(t) ==
    /\ thread[t].pc = "store"
    /\ _STR_FORMATS' = RegistryStore(_STR_FORMATS, thread[t].tag, thread[t].f,
                                     thread[t].conformer)
    /\ thread' = [thread EXCEPT ![t].pc = "release"]
    /\ UNCHANGED <<spec, value, op, result, call, _STR_FORMAT_LOCK, acquired>>

\* the body of the `with` in str_spec: the entry is read, or KeyError is raised
Lookup(t) ==
    /\ thread[t].pc = "lookup"
    /\ LET read == str_spec_lookup(_STR_FORMATS, thread[t].tag) IN
       thread' = [thread EXCEPT ![t].pc = "release", ![t].fmt = read.fmt,
                                ![t].exc = read.exc]
    /\ UNCHANGED <<spec, value, op, result, call, _STR_FORMATS, _STR_FORMAT_LOCK,
                   acquired>>

\* the `with` is left, normally or by the KeyError: the lock is released;
\* create_str_format returns f and a str_spec that raised is over
Release(t) ==
    /\ thread[t].pc = "release"
    /\ _STR_FORMAT_LOCK' = Unlocked
    /\ IF thread[t].fn = "str_spec" /\ thread[t].exc = ""
       THEN /\ thread' = [thread EXCEPT ![t].pc = "build"]
            /\ UNCHANGED <<op, result>>
       ELSE /\ thread' = [thread EXCEPT ![t] = Idle]
            /\ IF thread[t].fn = "str_spec"
               THEN op' = "str_spec" /\ result' = Exc(thread[t].exc, <<>>)
               ELSE UNCHANGED <<op, result>>
    /\ UNCHANGED <<spec, value, call, _STR_FORMATS, acquired>>

\* the rest of str_spec: the Spec is built from the entry that was read
BuildStrSpec(t) ==
    /\ thread[t].pc = "build"
    /\ spec' = str_spec("str", thread[t].kw, thread[t].fmt, [fn |-> "None"])
    /\ call' = [fn |-> "str_spec", kw |-> thread[t].kw, name |-> thread[t].tag,
                fmt |-> thread[t].fmt]
    /\ op' = "construct"
    /\ result' = NoResult
    /\ thread' = [thread EXCEPT ![t] = Idle]
    /\ UNCHANGED <<value, _STR_FORMATS, _STR_FORMAT_LOCK, acquired>>

FormatValues == {PyStr(<<"1">>), PyStr(<<"A">>)}

InitFormats ==
    /\ call = NoCall
    /\ spec = NoSpec
    /\ value \in FormatValues
    /\ op = ""
    /\ result = NoResult
    /\ NoThreads

NextFormats ==
    \/ \E t \in Threads : CallRegister(t)
    \/ \E t \in Builders : CallStrSpec(t)
    \/ \E t \in Threads : Acquire(t)
    \/ \E t \in Threads : Store(t)
    \/ \E t \in Threads : Lookup(t)
    \/ \E t \in Threads : Release(t)
    \/ \E t \in Threads : BuildStrSpec(t)
    \/ Next
SpecFormats == InitFormats /\ [][NextFormats]_vars

Init == InitAll \/ InitAny \/ InitShape \/ InitMap \/ InitEnum
Spec == Init /\ [][Next]_vars
(***************************************************************************)
(* What the claims speak of.                                               *)
(***************************************************************************)
\* S accepts v / S rejects v: is_valid returns True / False
Accepts(s, v) == LET r == is_valid(s, v) IN r.exc = "" /\ r.val = PyBool(TRUE)
Rejects(s, v) == LET r == is_valid(s, v) IN r.exc = "" /\ r.val = PyBool(FALSE)

IsAllSpec(s) == s.kind = "ValidatorSpec" /\ s.validate.fn = "_all_valid"
IsAnySpec(s) == s.kind = "ValidatorSpec" /\ s.validate.fn = "_any_valid"

\* the errors es as the enclosing Spec `tag` hands them on
Via(es, tag) == [k \in 1..Len(es) |-> with_details(es[k], tag, NO_ERROR_PATH)]

\* the value all(S1, ..., Sn) feeds to Si: v itself for S1, and for i >= 2 what
\* S(i-1).conform_valid makes of the value fed to S(i-1)
RECURSIVE PipelineValue(_, _, _)
PipelineValue(specs, v, i) ==
    IF i = 1 THEN v
    ELSE conform_valid(specs[i - 1], PipelineValue(specs, v, i - 1)).val

\* S1..S(i-1) each accept their pipelined input and conform it
PipelineReaches(specs, v, i) ==
    \A j \in 1..(i - 1) :
        /\ Accepts(specs[j], PipelineValue(specs, v, j))
        /\ conform_valid(specs[j], PipelineValue(specs, v, j)).exc = ""

\* what S1..S(i-1) run on the way to Si: each validates, then conforms
RECURSIVE PipelineSteps(_, _, _)
PipelineSteps(specs, v, i) ==
    IF i = 1 THEN <<>>
    ELSE PipelineSteps(specs, v, i - 1)
         \o validate_all(specs[i - 1], PipelineValue(specs, v, i - 1)).ev
         \o conform_valid(specs[i - 1], PipelineValue(specs, v, i - 1)).ev

(***************************************************************************)
(* C1.  all(S1, ..., Sn), n >= 2: when Si is the first constituent that    *)
(* rejects its pipelined input (S1 rejecting v itself is the case i = 1),  *)
(* validate(v) yields exactly the errors Si.validate yields for that       *)
(* input, in the same order (each handed on with the tag of the all Spec   *)
(* in front of via), and nothing ran but S1..Si: no later constituent is   *)
(* evaluated.                                                              *)
(***************************************************************************)
C1_FirstRejectingAt(i) ==
    LET specs == spec.validate.specs
        vi == PipelineValue(specs, value, i)
        own == validate_all(specs[i], vi)
    IN (PipelineReaches(specs, value, i) /\ Rejects(specs[i], vi)) =>
           /\ own.exc = ""
           /\ result.exc = ""
           /\ result.val = Via(own.val, spec.tag)
           /\ result.ev = <<Call(spec.tag, value)>>
                          \o PipelineSteps(specs, value, i) \o own.ev

C1_AllYieldsFirstRejectingOnly ==
    (IsAllSpec(spec) /\ op = "validate_all") =>
        \A i \in 1..Len(spec.validate.specs) : C1_FirstRejectingAt(i)

\* C1's case is reached: S1 rejects the value, a second Spec waits behind it,
\* and validate_all has returned S1's errors
C1_Witness ==
    /\ IsAllSpec(spec) /\ op = "validate_all"
    /\ Rejects(spec.validate.specs[1], value)
    /\ result.exc = "" /\ Len(result.val) >= 1
    /\ result.val = Via(validate_all(spec.validate.specs[1], value).val, spec.tag)

(***************************************************************************)
(* C2.  all(S1, ..., Sn) is a pipeline.                                    *)
(***************************************************************************)
\* every Si accepts its pipelined input (and conforms it for the next one)
AllAccept(specs, v) ==
    \A i \in 1..Len(specs) :
        PipelineReaches(specs, v, i) /\ Accepts(specs[i], PipelineValue(specs, v, i))

\* the conformers of S1..Sn in that order, then the outer one: those that are
\* given, as compose_conformers received them
Chain(s) ==
    CASE s.conformer.fn = "None" -> <<>>
      [] s.conformer.fn = "do_conform" -> s.conformer.conformers
      [] OTHER -> <<s.conformer>>

\* every conformer of the chain applied in turn, each to the result before it
RECURSIVE ApplyInOrder(_, _)
ApplyInOrder(cs, r) ==
    IF cs = <<>> \/ r.exc # "" THEN r
    ELSE ApplyInOrder(Tail(cs), After(r.ev, call_conformer(Head(cs), r.val)))

\* the same, but the chain ends as soon as a conformer has returned INVALID
RECURSIVE ApplyUntilInvalid(_, _)
ApplyUntilInvalid(cs, r) ==
    IF cs = <<>> \/ r.exc # "" \/ r.val = INVALID THEN r
    ELSE ApplyUntilInvalid(Tail(cs), After(r.ev, call_conformer(Head(cs), r.val)))

\* Si validates the value S(i-1).conform_valid produced, and is_valid holds iff
\* every Si accepts its pipelined input
C2_ValidatesPipelined ==
    LET specs == spec.validate.specs IN
    /\ op = "is_valid" =>
           /\ result.exc = ""
           /\ result.val = PyBool(TRUE) <=> AllAccept(specs, value)
    /\ (op = "validate_all" /\ AllAccept(specs, value)) =>
           /\ result.exc = "" /\ result.val = <<>>
           /\ result.ev = <<Call(spec.tag, value)>>
                          \o PipelineSteps(specs, value, Len(specs) + 1)

\* C2 as claimed: all(S1, ..., Sn) is a pipeline: Si validates what
\* S(i-1).conform_valid made of the previous pipeline value, is_valid(v) holds
\* iff every Si accepts its pipelined input, and for such v conform(v) is the
\* value obtained by applying the conformers of S1..Sn in that order, then the
\* outer conformer.
C2_ConformAppliesEveryConformer ==
    IsAllSpec(spec) =>
        /\ C2_ValidatesPipelined
        /\ (op = "conform" /\ AllAccept(spec.validate.specs, value)) =>
               LET applied == ApplyInOrder(Chain(spec), Ok(value, <<>>)) IN
               result.val = applied.val /\ result.exc = applied.exc

\* C2 as the code has it: the same pipeline; for a value every Si accepts,
\* conform(v) applies the conformers of S1..Sn in that order, then the outer
\* conformer, but stops at the first of them that returns INVALID, and INVALID
\* is then the result.
C2_ConformStopsAtInvalid ==
    IsAllSpec(spec) =>
        /\ C2_ValidatesPipelined
        /\ (op = "conform" /\ AllAccept(spec.validate.specs, value)) =>
               LET applied == ApplyUntilInvalid(Chain(spec), Ok(value, <<>>)) IN
               result.val = applied.val /\ result.exc = applied.exc

\* C2's case is reached: S1's conformer changes the value, S2 rejects the
\* original input but accepts the conformed one, and conform has returned
C2_Witness ==
    /\ IsAllSpec(spec) /\ op = "conform"
    /\ AllAccept(spec.validate.specs, value)
    /\ PipelineValue(spec.validate.specs, value, 2) # value
    /\ Rejects(spec.validate.specs[2], value)
    /\ result.exc = "" /\ result.val # INVALID

(***************************************************************************)
(* C3.  any(S1, ..., Sn), n >= 2: if some Si accepts v, validate(v) yields *)
(* no error at all; if every Si rejects v, validate(v) yields the errors   *)
(* of S1, then those of S2, ..., then those of Sn, each constituent's      *)
(* errors in their original order (each handed on with the tag of the any  *)
(* Spec in front of via).                                                  *)
(***************************************************************************)
\* the errors of S1..Si on v, one constituent after the other
RECURSIVE ErrorsOfEach(_, _, _)
ErrorsOfEach(specs, v, i) ==
    IF i = 0 THEN <<>>
    ELSE ErrorsOfEach(specs, v, i - 1) \o validate_all(specs[i], v).val

C3_AnyYieldsNothingOrEverything ==
    (IsAnySpec(spec) /\ op = "validate_all") =>
        LET specs == spec.validate.specs IN
        /\ (\E i \in 1..Len(specs) : Accepts(specs[i], value)) =>
               result.exc = "" /\ result.val = <<>>
        /\ (\A i \in 1..Len(specs) : Rejects(specs[i], value)) =>
               /\ \A i \in 1..Len(specs) : validate_all(specs[i], value).exc = ""
               /\ result.exc = ""
               /\ result.val = Via(ErrorsOfEach(specs, value, Len(specs)), spec.tag)

\* C3's cases are reached: a later constituent accepts what S1 rejected and
\* nothing is yielded
C3_Witness ==
    /\ IsAnySpec(spec) /\ op = "validate_all"
    /\ Rejects(spec.validate.specs[1], value)
    /\ Accepts(spec.validate.specs[2], value)
    /\ result.exc = "" /\ result.val = <<>>

(***************************************************************************)
(* C4.  any(S1, ..., Sn): conform(v) and conform_valid(v) return INVALID   *)
(* iff no Si accepts v; otherwise the result comes from the first Si, in   *)
(* argument order, that accepts v: Si.conform_valid(v), then the outer     *)
(* conformer if one was given, and with tag_conformed the pair             *)
(* (Si.tag, final value).  No later accepting constituent is used.         *)
(***************************************************************************)
\* the constituents that accept v, by position
Accepting(specs, v) == {i \in 1..Len(specs) : Accepts(specs[i], v)}

\* Si.conform_valid(v), then the outer conformer, then the tagging
ByConstituent(c, s, v) ==
    LET own == conform_valid(s, v)
        outer == IF own.exc # "" \/ c.conformer.fn = "None" THEN own
                 ELSE call_conformer(c.conformer, own.val)
    IN IF outer.exc # "" THEN outer
       ELSE Ok(IF c.tag_conformed THEN <<"tagged", s.tag, outer.val>> ELSE outer.val,
               <<>>)

C4_AnyConformsByFirstAccepting ==
    (IsAnySpec(spec) /\ op \in {"conform", "conform_valid"}) =>
        LET specs == spec.validate.specs
            accepting == Accepting(specs, value)
        IN /\ accepting = {} => result.exc = "" /\ result.val = INVALID
           /\ accepting # {} =>
                  LET first == CHOOSE i \in accepting : \A j \in accepting : i <= j
                      expected == ByConstituent(spec.conformer, specs[first], value)
                  IN /\ result.exc = expected.exc
                     /\ result.val = expected.val
                     /\ result.exc = "" => result.val # INVALID

\* C4's case is reached: two constituents accept the value, with different
\* results, and conform has returned what the first of them makes of it
C4_Witness ==
    /\ IsAnySpec(spec) /\ op = "conform"
    /\ Accepting(spec.validate.specs, value) = {1, 2}
    /\ ByConstituent(spec.conformer, spec.validate.specs[1], value).val
         # ByConstituent(spec.conformer, spec.validate.specs[2], value).val
    /\ result.exc = ""
    /\ result.val = ByConstituent(spec.conformer, spec.validate.specs[1], value).val

(***************************************************************************)
(* C5.  For every built-in Spec S and every value v: if S.is_valid(v) is   *)
(* true then S.conform_valid(v) completes without failing from a shape     *)
(* mismatch.  (No Spec of ShapeSpecs carries a conformer of its own that   *)
(* raises on a value the Spec accepts, so that an exception out of         *)
(* conform_valid(v) is a failure of the default conformer to rebuild the   *)
(* container.)                                                             *)
(***************************************************************************)
C5_ValidConformsWithoutShapeFailure ==
    (op = "conform_valid" /\ Accepts(spec, value)) => result.exc = ""

\* C5's case is reached: a collection Spec has accepted a non-empty list and
\* conform_valid has rebuilt a container from its conformed elements
C5_Witness ==
    /\ op = "conform_valid" /\ spec.kind = "CollSpec" /\ Accepts(spec, value)
    /\ TypeOf(value) = "list" /\ PyLen(value) >= 1
    /\ result.exc = "" /\ TypeOf(result.val) \in {"list", "set"}


\* the paths of the errors es
Paths(es) == {es[i].path : i \in 1..Len(es)}

\* the errors of es whose path starts at loc, in order
ErrorsAt(es, loc) ==
    SelectSeq(es, LAMBDA e : e.path # <<>> /\ e.path[1] = loc)

\* the paths in ps, each below loc
Under(loc, ps) == {<<loc>> \o q : q \in ps}

\* the elements that fail below the subject v of s, each named by the mapping
\* keys and positions that lead to it from v: a subject of the wrong shape, a
\* container that fails its collection-level or arity check, an absent
\* required key, and a leaf that its Spec does not accept
RECURSIVE FailingPaths(_, _)
FailingPaths(s, v) ==
    CASE s.kind = "DictSpec" ->
           IF TypeOf(v) # "dict" THEN {<<>>}
           ELSE UNION { LET keyspec == s.keyspecs[i] IN
                        IF PyContains(v, keyspec.key) = "true"
                        THEN Under(keyspec.key,
                                   FailingPaths(keyspec.spec, PyGetItem(v, keyspec.key).val))
                        ELSE IF keyspec.is_optional THEN {} ELSE {<<keyspec.key>>}
                        : i \in 1..Len(s.keyspecs) }
      [] s.kind = "CollSpec" ->
           IF ~Iterable(v) THEN {<<>>}
           ELSE (IF s.validate_coll.kind # "None" /\ ~Accepts(s.validate_coll, v)
                 THEN {<<>>} ELSE {})
                \cup UNION { Under(PyInt(i - 1), FailingPaths(s.spec, PyIter(v)[i]))
                             : i \in 1..Len(PyIter(v)) }
      [] s.kind = "TupleSpec" ->
           IF ~Sized(v) \/ PyLen(v) # Len(s.specs) THEN {<<>>}
           ELSE UNION { Under(PyInt(i - 1), FailingPaths(s.specs[i], PyIter(v)[i]))
                        : i \in 1..Len(s.specs) }
      [] OTHER -> IF Accepts(s, v) THEN {} ELSE {<<>>}

\* the Spec has containers nested in containers
IsContainer(s) == s.kind \in {"DictSpec", "CollSpec", "TupleSpec"}
Children(s) ==
    CASE s.kind = "DictSpec" -> {s.keyspecs[i].spec : i \in 1..Len(s.keyspecs)}
      [] s.kind = "CollSpec" -> {s.spec}
      [] s.kind = "TupleSpec" -> {s.specs[i] : i \in 1..Len(s.specs)}
      [] OTHER -> {}

(***************************************************************************)
(* C6.  For nested mapping, collection and tuple Specs, the errors         *)
(* validate yields carry exactly the paths of the failing elements: each   *)
(* failing nested element has an error whose path is the full sequence of  *)
(* keys and positions from the root value to it, outermost first, each     *)
(* failing sibling its own, a collection-level or arity failure of a       *)
(* nested container the path of that container; and no error carries any   *)
(* other path.                                                             *)
(***************************************************************************)
C6_PathsLeadToFailingElements ==
    (op = "validate_all" /\ IsContainer(spec) /\ result.exc = "")
        => Paths(result.val) = FailingPaths(spec, value)

\* C6's case is reached: a container nested in a mapping has a failing element
\* at its second position, and validate has named it by key and position
C6_Witness ==
    /\ op = "validate_all" /\ spec.kind = "DictSpec" /\ result.exc = ""
    /\ \E c \in Children(spec) : IsContainer(c)
    /\ \E i \in 1..Len(result.val) :
          /\ Len(result.val[i].path) = 2
          /\ result.val[i].path[2] = PyInt(1)
    /\ Paths(result.val) = FailingPaths(spec, value)

\* what the loop of a mapping Spec over its keys contributes for the key of
\* keyspec in the mapping d: for a present key what its child yields, named by
\* the key; for an absent required key the one 'missing key' error; for an
\* absent optional key nothing
KeyErrors(s, keyspec, d) ==
    IF PyContains(d, keyspec.key) = "true"
    THEN Errors(_enrich_errors(validate(keyspec.spec, PyGetItem(d, keyspec.key).val),
                               s.tag, keyspec.key))
    ELSE IF keyspec.is_optional THEN <<>>
    ELSE Errors(MissingKeyError(s, keyspec, d))

\* what runs for the key: the child of a present key, nothing for an absent one
KeySteps(keyspec, d) ==
    IF PyContains(d, keyspec.key) = "true"
    THEN Steps(validate(keyspec.spec, PyGetItem(d, keyspec.key).val))
    ELSE <<>>

RECURSIVE Concat(_, _)
Concat(f, n) == IF n = 0 THEN <<>> ELSE Concat(f, n - 1) \o f[n]

(***************************************************************************)
(* C7.  A mapping Spec validating a mapping d yields, key by key in the    *)
(* order of the Spec: for a required key absent from d exactly one         *)
(* 'missing key' error with path [k], without invoking k's child; for an   *)
(* absent optional key nothing; for a present key, required or optional,   *)
(* what its child Spec yields for d[k].  Nothing else is yielded and       *)
(* nothing else runs.  (For a Spec requiring only "id" and d = {} this is   *)
(* exactly one error, with path ["id"].)                                   *)
(***************************************************************************)
C7_MissingKeysReportedOncePresentKeysValidated ==
    (op = "validate_all" /\ spec.kind = "DictSpec" /\ TypeOf(value) = "dict") =>
        LET n == Len(spec.keyspecs) IN
        /\ result.exc = ""
        /\ result.val = Concat([i \in 1..n |-> KeyErrors(spec, spec.keyspecs[i], value)], n)
        /\ result.ev = <<Call(spec.tag, value)>>
                       \o Concat([i \in 1..n |-> KeySteps(spec.keyspecs[i], value)], n)
        /\ \A i \in 1..n :
              LET keyspec == spec.keyspecs[i]
                  at == ErrorsAt(result.val, keyspec.key)
              IN PyContains(value, keyspec.key) = "false" =>
                    IF keyspec.is_optional THEN at = <<>>
                    ELSE /\ Len(at) = 1
                         /\ at[1].path = <<keyspec.key>>
                         /\ at[1].message = "Mapping missing key"

\* C7's case is reached: a mapping lacks a required key and holds another
\* declared key, and validate has reported the absent one
C7_Witness ==
    /\ op = "validate_all" /\ spec.kind = "DictSpec" /\ TypeOf(value) = "dict"
    /\ result.exc = ""
    /\ \E i, j \in 1..Len(spec.keyspecs) :
          /\ ~spec.keyspecs[i].is_optional
          /\ PyContains(value, spec.keyspecs[i].key) = "false"
          /\ PyContains(value, spec.keyspecs[j].key) = "true"
          /\ \E k \in 1..Len(result.val) :
                /\ result.val[k].message = "Mapping missing key"
                /\ result.val[k].path = <<spec.keyspecs[i].key>>

(***************************************************************************)
(* C8.  Validating a subject that is not a mapping (None, a number, a      *)
(* boolean, a string, a list, a set, a tuple) against a mapping Spec that  *)
(* declares at least one key yields exactly one error, the top-level 'not  *)
(* a mapping' error with empty path: no missing-key error, no child error. *)
(***************************************************************************)
C8_NonMappingYieldsOneShapeError ==
    (op = "validate_all" /\ spec.kind = "DictSpec" /\ Len(spec.keyspecs) >= 1
     /\ TypeOf(value) # "dict") =>
        /\ result.exc = ""
        /\ Len(result.val) = 1
        /\ result.val[1].message = "Value is not a mapping type"
        /\ result.val[1].path = <<>>

\* C8's case is reached: a subject that is not a mapping has been validated
\* against a mapping Spec, which has reported the shape of the subject
C8_Witness ==
    /\ op = "validate_all" /\ spec.kind = "DictSpec" /\ Len(spec.keyspecs) >= 1
    /\ TypeOf(value) \in {"NoneType", "int", "bool", "str"}
    /\ result.exc = "" /\ Len(result.val) = 1
    /\ result.val[1].message = "Value is not a mapping type"

\* the keys a mapping Spec declares, and the keys of a mapping
DeclaredKeys(s) == {s.keyspecs[i].key : i \in 1..Len(s.keyspecs)}
KeysOf(d) == {d[2][i][1] : i \in 1..Len(d[2])}

\* the mapping d with one more key
WithKey(d, k, x) == PyDict(Append(d[2], <<k, x>>))

\* keys and values to add to a mapping
ExtraKeys == {StrZ, StrB, PyInt(1)}
ExtraValues == {None, PyInt(1), PyList(<<StrA>>)}

\* the keys the conformed mapping is to have
ConformedKeys(s, d) ==
    {s.keyspecs[i].key : i \in {j \in 1..Len(s.keyspecs) :
        ~s.keyspecs[j].is_optional \/ s.keyspecs[j].key \in KeysOf(d)}}

C9_OpenWorld ==
    (op = "is_valid" /\ spec.kind = "DictSpec" /\ TypeOf(value) = "dict"
     /\ result = Ok(PyBool(TRUE), result.ev)) =>
        \A k \in ExtraKeys \ (DeclaredKeys(spec) \cup KeysOf(value)), x \in ExtraValues :
            Accepts(spec, WithKey(value, k, x))

C9_ConformedMapping ==
    (op \in {"conform", "conform_valid"} /\ spec.kind = "DictSpec"
     /\ TypeOf(value) = "dict" /\ Accepts(spec, value)) =>
        /\ result.exc = ""
        /\ TypeOf(result.val) = "dict"
        /\ KeysOf(result.val) = ConformedKeys(spec, value)
        /\ Len(result.val[2]) = Cardinality(ConformedKeys(spec, value))
        /\ \A i \in 1..Len(spec.keyspecs) :
              LET keyspec == spec.keyspecs[i] IN
              keyspec.key \in ConformedKeys(spec, value) =>
                  PyGetItem(result.val, keyspec.key).val
                      = conform(keyspec.spec, PyGetItem(value, keyspec.key).val).val

(***************************************************************************)
(* C9.  Mapping Specs are open-world: a mapping that satisfies a mapping   *)
(* Spec still satisfies it with any undeclared key added; the default      *)
(* conformer returns, for a satisfying mapping, a mapping whose keys are   *)
(* exactly the required keys and the optional keys present in the input,   *)
(* each with its child Spec's conformed value, so undeclared input keys    *)
(* are dropped; and no operation changes the input mapping.                *)
(***************************************************************************)
C9_OpenWorldConformDropsUndeclared ==
    /\ [](C9_OpenWorld /\ C9_ConformedMapping)
    /\ [][value' = value]_vars

\* C9's case is reached: a satisfying mapping with an undeclared key, without
\* one optional key and with a value its child changes has been conformed to a
\* mapping that differs from it
C9_Witness ==
    /\ op = "conform" /\ spec.kind = "DictSpec" /\ TypeOf(value) = "dict"
    /\ Accepts(spec, value)
    /\ KeysOf(value) \ DeclaredKeys(spec) # {}
    /\ \E i \in 1..Len(spec.keyspecs) :
          spec.keyspecs[i].is_optional /\ spec.keyspecs[i].key \notin KeysOf(value)
    /\ \E k \in KeysOf(value) \cap DeclaredKeys(spec) :
          PyGetItem(result.val, k).val # PyGetItem(value, k).val
    /\ result.exc = "" /\ KeysOf(result.val) = ConformedKeys(spec, value)

\* a Spec built from an enumeration, and the members of its enumeration
IsEnumSpec(s) == s.kind = "SetSpec" /\ s.conformer.fn = "conform_enum"
MembersOf(s) ==
    LET ms == EnumMembers(s.conformer.e) IN
    [i \in 1..Len(ms) |-> [member |-> EnumMember(s.conformer.e, ms[i].name),
                           name |-> ms[i].name, value |-> ms[i].value]]

\* v is the value of some member
IsMemberValue(ms, v) == \E i \in 1..Len(ms) : PyEq(v, ms[i].value)

\* v is a member, a member name or a member value
IsMemberForm(ms, v) ==
    \E i \in 1..Len(ms) : v = ms[i].member \/ v = ms[i].name \/ PyEq(v, ms[i].value)

\* the call has returned x
Returned(x) == result.exc = "" /\ result.val = x

ConformedElements(s, v) ==
    [i \in 1..Len(PyIter(v)) |-> conform(s.spec, PyIter(v)[i]).val]

\* the type of the container conform_coll is to return
TargetType(s, v) == IF s.out_type # NoType THEN s.out_type ELSE TypeOf(v)

(***************************************************************************)
(* C11.  Default collection conformance of a subject v the Spec accepts    *)
(* returns a container of type `into` when given, else of v's own type,    *)
(* that holds exactly child.conform(e) for every element e of v: in v's    *)
(* iteration order and of the same length when the output is ordered, as   *)
(* a set when it is a set.  This includes the strings a Spec with          *)
(* allow_str accepts.                                                      *)
(***************************************************************************)
C11_CollectionConformsElementwise ==
    (op \in {"conform", "conform_valid"} /\ spec.kind = "CollSpec"
     /\ Accepts(spec, value)) =>
        /\ result.exc = ""
        /\ TypeOf(result.val) = TargetType(spec, value)
        /\ IF TypeOf(result.val) = "set"
           THEN result.val[2] = SeqToSet(ConformedElements(spec, value))
           ELSE PyIter(result.val) = ConformedElements(spec, value)

\* C11's case is reached: a list of two strings has been conformed by a
\* collection Spec whose child changes them, into a list of the changed ones
C11_Witness ==
    /\ op = "conform" /\ spec.kind = "CollSpec" /\ Accepts(spec, value)
    /\ TypeOf(value) = "list" /\ PyLen(value) = 2
    /\ result.exc = "" /\ TypeOf(result.val) = "list"
    /\ result.val # value
    /\ PyIter(result.val) = ConformedElements(spec, value)

\* a length option that is given and is not a non-negative integer
BadLength(n) == n # None /\ (TypeOf(n) # "int" \/ n[2] < 0)

\* collection options that contradict themselves
InconsistentOptions(o) ==
    \/ o.given = "other"
    \/ /\ o.given # "absent"
       /\ \/ BadLength(o.minlength) \/ BadLength(o.maxlength) \/ BadLength(o.count)
          \/ /\ o.minlength # None /\ o.maxlength # None
             /\ TypeOf(o.minlength) = "int" /\ TypeOf(o.maxlength) = "int"
             /\ o.minlength[2] > o.maxlength[2]
          \/ o.count # None /\ (o.minlength # None \/ o.maxlength # None)

\* the key a mapping predicate declares, required or optional
BaseKey(k) == IF IsOptionalKey(k) THEN k[2] ELSE k

\* a predicate with an inconsistency in it, at any depth
RECURSIVE InconsistentPred(_)
InconsistentPred(pr) ==
    CASE pr.p = "list" -> InconsistentOptions(pr.opts) \/ InconsistentPred(pr.child)
      [] pr.p = "dict" ->
           \/ \E i, j \in 1..Len(pr.items) :
                 /\ i # j
                 /\ BaseKey(pr.items[i][1]) = BaseKey(pr.items[j][1])
                 /\ IsOptionalKey(pr.items[i][1]) # IsOptionalKey(pr.items[j][1])
           \/ \E i \in 1..Len(pr.items) : InconsistentPred(pr.items[i][2])
      [] pr.p = "tuple" -> \E i \in 1..Len(pr.preds) : InconsistentPred(pr.preds[i])
      [] OTHER -> FALSE

\* the predicates of a call: its arguments without a leading tag
PredsOf(c) == IF c.args # <<>> /\ c.args[1].p = "str" THEN Tail(c.args) ELSE c.args

\* mapping predicates that declare one key as required here and optional there
KeyClash(preds) ==
    \E i, j \in 1..Len(preds) :
        /\ i # j /\ preds[i].p = "dict" /\ preds[j].p = "dict"
        /\ \E m \in 1..Len(preds[i].items), n \in 1..Len(preds[j].items) :
              /\ ~IsOptionalKey(preds[i].items[m][1])
              /\ IsOptionalKey(preds[j].items[n][1])
              /\ preds[j].items[n][1][2] = preds[i].items[m][1]

\* the call has one of the inconsistencies construction is to reject
InconsistentCall(c) ==
    LET preds == PredsOf(c) IN
    \/ \E i \in 1..Len(preds) : InconsistentPred(preds[i])
    \/ c.fn \in {"all_spec", "any_spec", "merge_spec"} /\ Len(preds) = 0
    \/ c.fn \in {"nilable_spec", "default_spec"} /\ Len(preds) # 1
    \/ c.fn = "kv_spec" /\ Len(preds) # 2
    \/ c.fn = "merge_spec" /\ KeyClash(preds)

(***************************************************************************)
(* C12.  Every option inconsistency is rejected by the constructor: a      *)
(* collection minlength, maxlength or count that is negative or not an     *)
(* integer, minlength > maxlength, count together with minlength or        *)
(* maxlength, collection options that are not a dict, a key declared       *)
(* both required and optional (in one mapping predicate or across the      *)
(* inputs of merge), all / any / merge without a Spec, nilable / default   *)
(* with other than one, kv with other than two.  The call raises and no    *)
(* Spec is returned, so nothing can be validated against it.               *)
(***************************************************************************)
C12_InconsistentOptionsRejectedAtConstruction ==
    (op = "construct" /\ InconsistentCall(call)) =>
        /\ result.exc # ""
        /\ spec = NoSpec
        /\ ~ENABLED Next

\* C12's case is reached: a collection Spec with minlength > maxlength (both
\* valid lengths) has been asked for, and the constructor has raised
C12_Witness ==
    /\ op = "construct" /\ call.fn = "make_spec" /\ Len(call.args) = 1
    /\ call.args[1].p = "list"
    /\ call.args[1].opts = [DefaultOpts EXCEPT !.minlength = PyInt(2),
                                               !.maxlength = PyInt(1)]
    /\ result.exc = "ValueError" /\ spec = NoSpec

\* the mapping predicates given to merge, and what each says about a key
MergeInputs == PredsOf(call)
RequiredIn(pred, k) == \E i \in 1..Len(pred.items) : pred.items[i][1] = k
OptionalIn(pred, k) == \E i \in 1..Len(pred.items) : pred.items[i][1] = OptionalKey(k)
SpecIn(pred, k) ==
    make_spec(NoTag,
              pred.items[CHOOSE i \in 1..Len(pred.items) : BaseKey(pred.items[i][1]) = k][2],
              NoConformer)

\* the Specs the inputs give for key k, in input order
SpecsFor(preds, k) ==
    LET idx == SelectSeq([i \in 1..Len(preds) |-> i],
                         LAMBDA i : RequiredIn(preds[i], k) \/ OptionalIn(preds[i], k))
    IN [j \in 1..Len(idx) |-> SpecIn(preds[idx[j]], k)]

\* the Spec merge must hold for key k: the one Spec given for it, under the
\* key's name, or all(...) of the Specs given for it, in input order
MergedKeySpec(preds, k, is_optional) ==
    LET ss == SpecsFor(preds, k)
        name == KeyStr(IF is_optional THEN OptionalKey(k) ELSE k)
    IN IF Len(ss) = 1 THEN [ss[1] EXCEPT !.tag = name]
       ELSE ValidatorSpec(name, [fn |-> "_all_valid", specs |-> ss],
                          compose_conformers([j \in 1..Len(ss) |-> ss[j].conformer]
                                             \o <<NoConformer>>))

\* a merge of two or more inputs has been asked for
MergeOfSeveral ==
    /\ op = "construct" /\ call.fn = "merge_spec"
    /\ call.args # <<>> /\ Len(MergeInputs) >= 2

(***************************************************************************)
(* C13.  merge of two or more inputs: an input that is not a mapping Spec  *)
(* raises TypeError; a key required in one input and optional in another   *)
(* raises KeyError; otherwise the result is one mapping Spec over the      *)
(* union of the inputs' keys, where a key given in one input holds that     *)
(* input's Spec (same predicate and conformer, under the key's name), a    *)
(* key given in several holds all(...) of their Specs in input order, and  *)
(* a key is optional exactly when the inputs give it as optional.  (A      *)
(* single input is handed to make_spec unmerged, whatever it is.)          *)
(***************************************************************************)
C13_MergeIsUnionOfMappingSpecs ==
    MergeOfSeveral =>
        LET preds == MergeInputs
            keys == UNION {{BaseKey(preds[i].items[j][1]) : j \in 1..Len(preds[i].items)} :
                              i \in {n \in 1..Len(preds) : preds[n].p = "dict"}}
        IN CASE \E i \in 1..Len(preds) : preds[i].p # "dict" ->
                   result.exc = "TypeError" /\ spec = NoSpec
             [] \E k \in keys : \E i, j \in 1..Len(preds) :
                   RequiredIn(preds[i], k) /\ OptionalIn(preds[j], k) ->
                   result.exc = "KeyError" /\ spec = NoSpec
             [] OTHER ->
                   /\ result.exc = "" /\ spec.kind = "DictSpec"
                   /\ {spec.keyspecs[n].key : n \in 1..Len(spec.keyspecs)} = keys
                   /\ Len(spec.keyspecs) = Cardinality(keys)
                   /\ \A n \in 1..Len(spec.keyspecs) :
                         LET ks == spec.keyspecs[n] IN
                         /\ ks.is_optional = \E i \in 1..Len(preds) : OptionalIn(preds[i], ks.key)
                         /\ ks.spec = MergedKeySpec(preds, ks.key, ks.is_optional)

\* C13 as first stated: whenever an input of merge is not a mapping Spec, the
\* call raises TypeError
C13_NonMappingInputRaisesTypeError ==
    (/\ op = "construct" /\ call.fn = "merge_spec" /\ call.args # <<>>
     /\ \E i \in 1..Len(MergeInputs) : MergeInputs[i].p # "dict")
        => result.exc = "TypeError"

\* C13's case is reached: two mapping Specs that both require the key "a" have
\* been merged, and the merged Spec holds an all(...) Spec for it
C13_Witness ==
    /\ MergeOfSeveral /\ Len(MergeInputs) = 2
    /\ MergeInputs[1] # MergeInputs[2]
    /\ \A i \in 1..2 : MergeInputs[i].p = "dict" /\ RequiredIn(MergeInputs[i], StrA)
    /\ IsSpec(spec) /\ spec.kind = "DictSpec"
    /\ \E n \in 1..Len(spec.keyspecs) :
          /\ spec.keyspecs[n].key = StrA
          /\ spec.keyspecs[n].spec.kind = "ValidatorSpec"
          /\ Len(spec.keyspecs[n].spec.validate.specs) = 2

\* the Spec S that nilable(S) or default(S) has been built around
Wrapped == call.args[1].spec
IsNilable == call.fn = "nilable_spec" /\ IsSpec(spec)
IsDefault == call.fn = "default_spec" /\ IsSpec(spec)

\* the one error nilable adds after those of S
NotNoneError(tag, v) ==
    ErrorDetails("is not None", <<"fn", "nil_or_pred">>, v, <<tag>>, <<>>)

WrappedAccepts ==
    LET r == validate_all(Wrapped, value) IN r.exc = "" /\ r.val = <<>>

(***************************************************************************)
(* C15.  default(S, default=d).  validate yields no error for any value,   *)
(* whether S accepts it, rejects it, or raises on it; conform gives S's    *)
(* conformed value when S accepts the value and the literal d otherwise.   *)
(***************************************************************************)
C15_DefaultNeverRejects ==
    IsDefault =>
        /\ op = "validate_all" => result.exc = "" /\ result.val = <<>>
        /\ op = "conform" =>
              IF WrappedAccepts
              THEN LET s_conformed == conform(Wrapped, value) IN
                   result.exc = s_conformed.exc /\ result.val = s_conformed.val
              ELSE result.exc = "" /\ result.val = call.default

\* C15's case is reached: default(S) has validated a value that S does not take
C15_Witness ==
    /\ IsDefault /\ op = "validate_all" /\ ~WrappedAccepts

(***************************************************************************)
(* C16.  is_valid returns True or False for every Spec and every value,    *)
(* None, non-iterable values under a collection Spec and unhashable        *)
(* values under a set Spec included: it never raises.                      *)
(***************************************************************************)
C16_IsValidNeverRaises ==
    op = "is_valid" => result.exc = "" /\ result.val \in {PyBool(TRUE), PyBool(FALSE)}

\* C16's case is reached: is_valid has been called on a predicate Spec whose
\* predicate raises on the value, and has returned False
C16_Witness ==
    /\ op = "is_valid" /\ spec.kind = "PredicateSpec" /\ spec.pred = "str.isupper"
    /\ value = PyInt(1)
    /\ result.exc = "" /\ result.val = PyBool(FALSE)

\* a constituent of any(...), given no conformer of its own, accepts the value
\* and the constituent's conformer returns INVALID
ConstituentConformsToInvalid ==
    /\ IsAnySpec(spec)
    /\ spec.conformer.conformer = NoConformer
    /\ \E i \in 1..Len(spec.validate.specs) :
          /\ Accepts(spec.validate.specs[i], value)
          /\ conform_valid(spec.validate.specs[i], value).exc = ""
          /\ conform_valid(spec.validate.specs[i], value).val = INVALID

(***************************************************************************)
(* C17.  A conformance failure is signalled by returning INVALID, never by *)
(* raising: when the conformer of a constituent returns INVALID for a      *)
(* value that constituent accepted, conform and conform_valid of the       *)
(* enclosing any(...) return normally.                                     *)
(***************************************************************************)
C17_ConformFailureNeverRaises ==
    (ConstituentConformsToInvalid /\ op \in {"conform", "conform_valid"})
        => result.exc = ""

\* C17's case is reached: the conformer of a constituent that accepted the
\* value has returned INVALID and conform of the enclosing any(...) has run
C17_Witness ==
    ConstituentConformsToInvalid /\ op = "conform"

\* a Spec has been derived from the existing Spec `Original`, by a method of
\* that Spec or by make_spec(tag?, Original, conformer=...)
DerivedByMethod == call.fn \in {"with_tag", "with_conformer", "compose_conformer"}
DerivedByMakeSpec ==
    /\ call.fn = "make_spec" /\ call.args # <<>>
    /\ Len(PredsOf(call)) = 1 /\ PredsOf(call)[1].p = "spec"
Original == IF DerivedByMethod THEN call.spec ELSE PredsOf(call)[1].spec
GivenTag ==
    IF DerivedByMethod THEN call.tag
    ELSE IF call.args[1].p = "str" THEN call.args[1].s ELSE NoTag

\* s and t differ in nothing but the fields named
SameBut(s, t, fields) ==
    /\ DOMAIN s = DOMAIN t
    /\ \A f \in DOMAIN s \ fields : s[f] = t[f]

(***************************************************************************)
(* C18.  Specs are immutable values.  with_tag returns the Spec under the  *)
(* new tag, with_conformer the Spec with the new conformer in place of     *)
(* the old, compose_conformer the Spec with the new conformer applied      *)
(* after the old; make_spec on an existing Spec with a tag or a conformer  *)
(* returns the Spec with the tag and the conformer replaced (the conformer *)
(* is not composed with the old one), and with neither returns that same   *)
(* Spec.  Nothing else of the Spec differs, the original keeps its tag,    *)
(* its conformer and its validation, and validate and conform leave the    *)
(* Spec they are called on as it was built.                                *)
(***************************************************************************)
C18_SpecsAreImmutable ==
    ((DerivedByMethod \/ DerivedByMakeSpec) /\ op # "") =>
        /\ IsSpec(spec) /\ spec = Build(call)
        /\ CASE call.fn = "with_tag" ->
                  SameBut(spec, Original, {"tag"}) /\ spec.tag = GivenTag
             [] call.fn = "with_conformer" ->
                  SameBut(spec, Original, {"conformer"}) /\ spec.conformer = call.conformer
             [] call.fn = "compose_conformer" ->
                  /\ SameBut(spec, Original, {"conformer"})
                  /\ Original.conformer = NoConformer => spec.conformer = call.conformer
                  /\ Original.conformer # NoConformer =>
                         /\ spec.conformer.existing = Original.conformer
                         /\ spec.conformer.conformer = call.conformer
             [] OTHER ->
                  /\ SameBut(spec, Original, {"tag", "conformer"})
                  /\ spec.tag = IF GivenTag = NoTag THEN Original.tag ELSE GivenTag
                  /\ spec.conformer = IF call.conformer = NoConformer
                                      THEN Original.conformer ELSE call.conformer
                  /\ (GivenTag = NoTag /\ call.conformer = NoConformer) => spec = Original
        /\ op = "validate_all" =>
              LET before == validate_all(Original, value) IN
              result.exc = before.exc /\ Len(result.val) = Len(before.val)

\* C18's case is reached: make_spec has been given a Spec that has a conformer
\* together with another conformer, and the Spec it returned has conformed a
\* value
C18_Witness ==
    /\ DerivedByMakeSpec /\ op = "conform"
    /\ Original.conformer # NoConformer /\ call.conformer # NoConformer
    /\ call.conformer # Original.conformer
    /\ result.exc = ""

\* the one predicate make_spec is left with, and the tag before it
MakeSpecCalled == op = "construct" /\ call.fn = "make_spec"
MadeFrom == PredsOf(call)[1]
LeadingTag == IF call.args # <<>> /\ call.args[1].p = "str" THEN call.args[1].s ELSE NoTag

CollMade ==
    /\ call.fn = "make_spec" /\ Len(call.args) = 1 /\ call.args[1].p = "list"
    /\ IsSpec(spec)
CollOpts == IF call.args[1].opts.given = "absent" THEN DefaultOpts ELSE call.args[1].opts

(***************************************************************************)
(* C20.  A collection Spec made without allow_str, or with allow_str       *)
(* false, rejects every str subject, the empty string and strings whose    *)
(* characters all satisfy the element Spec included: is_valid is False     *)
(* whatever kind, minlength, maxlength, count and into are.                *)
(***************************************************************************)
C20_StringsRejectedWithoutAllowStr ==
    (CollMade /\ ~CollOpts.allow_str /\ op = "is_valid" /\ TypeOf(value) = "str")
        => result.exc = "" /\ result.val = PyBool(FALSE)

\* C20's case is reached: a collection Spec made without allow_str has been
\* asked whether a non-empty str is valid
C20_Witness ==
    /\ CollMade /\ ~CollOpts.allow_str /\ op = "is_valid"
    /\ TypeOf(value) = "str" /\ value # Str0

\* a tuple Spec has been made, with no conformer of the caller's
TupleMade ==
    /\ call.fn = "make_spec" /\ call.args # <<>> /\ call.conformer = NoConformer
    /\ Len(PredsOf(call)) = 1 /\ MadeFrom.p = "tuple"
    /\ IsSpec(spec)

\* the children's tags, normalized, and whether no two of them are the same
ChildTags == [i \in 1..Len(spec.specs) |-> Munge(spec.specs[i].tag)]
ChildTagsDistinct ==
    \A i, j \in 1..Len(spec.specs) : i # j => ChildTags[i] # ChildTags[j]

\* a valid tuple has been conformed; what its elements conform to, in order
ValidTupleConformed ==
    /\ TupleMade /\ op = "conform" /\ TypeOf(value) = "tuple"
    /\ Accepts(spec, value)
ConformedInOrder ==
    [i \in 1..Len(spec.specs) |-> conform(spec.specs[i], value[2][i]).val]

\* the value is a record with the children's tags for fields
IsRecordOf(v, elements) ==
    /\ v[1] = "namedtuple"
    /\ v[2].fields = ChildTags
    /\ v[3] = elements

ObjMade == call.fn = "obj_spec" /\ IsSpec(spec)
ValidObjectConformed ==
    /\ ObjMade /\ op \in {"conform", "conform_valid"}
    /\ TypeOf(value) = "object" /\ Accepts(spec, value)

(***************************************************************************)
(* C22.  An object Spec has no default conformer.  Built without a         *)
(* conformer, it does not conform a valid object: conform and              *)
(* conform_valid fail, they return neither the object nor a copy of it.    *)
(* Built with a conformer, they return what that conformer returns.        *)
(***************************************************************************)
C22_ObjectConformanceNeedsConformer ==
    ValidObjectConformed =>
        IF call.conformer = NoConformer
        THEN result.exc # "" \/ result.val = INVALID
        ELSE /\ result.exc = ConfApply(call.conformer, value).exc
             /\ result.val = ConfApply(call.conformer, value).val

\* C22's case is reached: an object Spec built without a conformer has
\* conformed an object it accepts
C22_Witness ==
    ValidObjectConformed /\ call.conformer = NoConformer /\ op = "conform"

(***************************************************************************)
(* C23: the format registry is accessed only under its lock.               *)
(***************************************************************************)
\* thread t is inside the `with _STR_FORMAT_LOCK:` of a registration or lookup
InCriticalSection(t) == thread[t].pc \in {"store", "lookup", "release"}
\* a registration under name n has the lock and has not stored its entry yet
Storing(n) == \E t \in Threads : thread[t].pc = "store" /\ thread[t].tag = n

\* C23: the registry is read and written only by the thread that holds the
\* lock, so at most one thread is in a registration or lookup critical
\* section; once the registrations under a name have stored, the registry
\* holds for that name exactly the (validator, conformer) entry of the
\* registration that acquired the lock last, and a store changes no other name.
C23_RegistryOnlyUnderLock ==
    /\ [](\A t \in Threads : InCriticalSection(t) <=> _STR_FORMAT_LOCK = t)
    /\ [](\A t1, t2 \in Threads :
             InCriticalSection(t1) /\ InCriticalSection(t2) => t1 = t2)
    /\ [](\A n \in FormatNames : ~Storing(n) => _STR_FORMATS[n] = acquired[n])
    /\ [][\A t \in Threads : Store(t) \/ Lookup(t) => _STR_FORMAT_LOCK = t]_vars
    /\ [][_STR_FORMATS' # _STR_FORMATS =>
            \E t \in Threads :
               /\ _STR_FORMAT_LOCK = t /\ thread[t].pc = "store"
               /\ _STR_FORMATS'[thread[t].tag] = StrFormat(thread[t].f, thread[t].conformer)
               /\ \A n \in FormatNames \ {thread[t].tag} :
                     _STR_FORMATS'[n] = _STR_FORMATS[n]]_vars

\* two registrations under one name with different entries: one has stored
\* over the entry of an earlier registration and still holds the lock, the
\* other waits for the lock
C23_Witness ==
    \E t1, t2 \in Threads :
       /\ t1 # t2
       /\ thread[t1].fn = "register_str_format" /\ thread[t1].pc = "release"
       /\ thread[t2].fn = "register_str_format" /\ thread[t2].pc = "acquire"
       /\ thread[t1].tag = thread[t2].tag
       /\ thread[t1].f # thread[t2].f
       /\ _STR_FORMAT_LOCK = t1
       /\ _STR_FORMATS[thread[t1].tag] = StrFormat(thread[t1].f, thread[t1].conformer)
       /\ _STR_FORMATS["uuid"] # ImportedFormats["uuid"]
       /\ _STR_FORMATS["digits"] # NoFormat

(***************************************************************************)
(* C30: a string Spec keeps the format entry it was built from.            *)
(***************************************************************************)
\* the Spec under test was returned by str_spec(format_=...) or
\* str_spec(conform_format=...); call.fmt is the entry that call read
StrSpecBuilt == call.fn = "str_spec" /\ IsSpec(spec)
\* the validator of entry e yields no error for the string v
FormatAccepts(e, v) == ValidatorFn(e.validate, v) = <<>>
\* the conformer a Spec built from entry e applies: the entry's for conform_format
CapturedConformer(kw, e) == IF kw = "conform_format" THEN e.conformer ELSE NoConformer
\* what the methods of a Spec built from entry e answer for the string v
BehavesAs(kw, e, v) ==
    /\ op = "validate_all" => (result.val = <<>>) = FormatAccepts(e, v)
    /\ op = "is_valid" => result.val = PyBool(FormatAccepts(e, v))
    /\ op = "conform" =>
          result.val = IF ~FormatAccepts(e, v) THEN INVALID
                       ELSE IF CapturedConformer(kw, e) = NoConformer THEN v
                       ELSE ConfApply(CapturedConformer(kw, e), v).val
    /\ op = "conform_valid" =>
          IF CapturedConformer(kw, e) = NoConformer
          THEN result.val = v /\ result.exc = ""
          ELSE /\ result.val = ConfApply(CapturedConformer(kw, e), v).val
               /\ result.exc = ConfApply(CapturedConformer(kw, e), v).exc
\* a step of a thread that is registering a format
RegistrationStep ==
    \E t \in Threads :
       \/ CallRegister(t)
       \/ thread[t].fn = "register_str_format" /\ (Acquire(t) \/ Store(t) \/ Release(t))

\* C30: str_spec reads one registry entry while it holds the lock and builds
\* the Spec from the validator and conformer of that entry; whatever is
\* registered under the name afterwards, the Spec validates and conforms as
\* that entry says, and no step of a registration changes a Spec already
\* built; a lookup of an unregistered name raises KeyError, leaves the
\* registry as it was and the lock released.
C30_BuiltSpecsKeepTheirFormat ==
    /\ [](StrSpecBuilt => BehavesAs(call.kw, call.fmt, value))
    /\ [][\A t \in Threads : Lookup(t) =>
             /\ _STR_FORMAT_LOCK = t
             /\ IF _STR_FORMATS[thread[t].tag] # NoFormat
                THEN thread'[t].fmt = _STR_FORMATS[thread[t].tag] /\ thread'[t].exc = ""
                ELSE thread'[t].exc = "KeyError" /\ _STR_FORMATS' = _STR_FORMATS]_vars
    /\ [][\A t \in Threads : BuildStrSpec(t) =>
             /\ call'.fmt = thread[t].fmt /\ call'.kw = thread[t].kw
             /\ spec'.kind = "ValidatorSpec"
             /\ spec'.conformer = CapturedConformer(thread[t].kw, thread[t].fmt)]_vars
    /\ [][RegistrationStep => spec' = spec /\ call' = call]_vars
    /\ [][\A t \in Threads : Release(t) /\ thread[t].exc = "KeyError" =>
             /\ _STR_FORMAT_LOCK' = Unlocked
             /\ _STR_FORMATS' = _STR_FORMATS
             /\ result'.exc = "KeyError"
             /\ spec' = spec]_vars

\* a Spec built from the digits-to-int entry has conformed "1" to 1 although
\* the name now holds another validator, which rejects "1"
C30_Witness ==
    /\ StrSpecBuilt /\ op = "conform"
    /\ call.kw = "conform_format"
    /\ call.fmt = StrFormat([fn |-> "validate_digits"], [fn |-> "int"])
    /\ _STR_FORMATS[call.name] = StrFormat([fn |-> "validate_upper"], [fn |-> "None"])
    /\ value = PyStr(<<"1">>)
    /\ result.val = PyInt(1)

(***************************************************************************)
(* C24: conforming a conformed value again.                                *)
(***************************************************************************)
\* the user conformer functions that ran in the events ev
ConformersRun(ev) == {ev[i][2] : i \in {j \in 1..Len(ev) : ev[j][1] = "conf"}}
\* user conformers that return a value of the type they are given:
\* str.upper (str to str) and inc (int to int)
ShapePreserving == {"str.upper", "inc"}
\* user conformers f with f(f(x)) = f(x): str.upper and int
Idempotent == {"str.upper", "int"}
\* S.conform(S.conform(v))
ConformedAgain == conform(spec, result.val)
\* S.conform(v) has returned a value that is itself valid under S
ConformedStaysValid ==
    /\ op = "conform" /\ result.exc = "" /\ result.val # INVALID
    /\ is_valid(spec, result.val).exc = ""
    /\ is_valid(spec, result.val).val = PyBool(TRUE)
\* when only the conformers fns (and the default ones) take part in both calls
ConformIsIdempotentWith(fns) ==
    (/\ ConformedStaysValid
     /\ ConformersRun(result.ev) \cup ConformersRun(ConformedAgain.ev) \subseteq fns)
    => ConformedAgain.exc = "" /\ ConformedAgain.val = result.val

IsKvSpec(s) == s.kind = "ValidatorSpec" /\ s.validate.fn = "_kv_valid"
\* the Specs a Spec hands its subject, or parts of it, to
SubSpecs(s) ==
    Children(s)
    \cup (IF s.kind = "CollSpec" /\ s.validate_coll.kind # "None"
          THEN {s.validate_coll} ELSE {})
    \cup (IF s.kind = "ValidatorSpec" /\ s.validate.fn \in {"_all_valid", "_any_valid"}
          THEN {s.validate.specs[i] : i \in 1..Len(s.validate.specs)} ELSE {})
    \cup (IF IsKvSpec(s) THEN {s.validate.keyspec, s.validate.valspec} ELSE {})
    \cup (IF s.kind = "ValidatorSpec" /\ s.validate.fn = "nil_or_pred"
          THEN {s.validate.spec} ELSE {})
\* the tags from s down to any Spec below it, outermost first; a key-value
\* Spec adds its tag twice, in _kv_valid and in ValidatorSpec.validate
OwnTags(s) == IF IsKvSpec(s) THEN <<s.tag, s.tag>> ELSE <<s.tag>>
RECURSIVE TagChains(_)
TagChains(s) ==
    {<<s.tag>>, OwnTags(s)}
    \cup UNION {{OwnTags(s) \o c : c \in TagChains(k)} : k \in SubSpecs(s)}
\* path, followed from v, names an element of v, or at its end a key that a
\* mapping lacks
RECURSIVE Locates(_, _)
Locates(v, path) ==
    IF path = <<>> THEN TRUE
    ELSE IF TypeOf(v) = "dict"
         THEN /\ Hashable(path[1])
              /\ IF PyContains(v, path[1]) = "true"
                 THEN Locates(PyGetItem(v, path[1]).val, Tail(path))
                 ELSE Len(path) = 1
    ELSE /\ Iterable(v) /\ TypeOf(path[1]) = "int"
         /\ path[1][2] + 1 \in 1..Len(PyIter(v))
         /\ Locates(PyIter(v)[path[1][2] + 1], Tail(path))
IsScalarSpec(s) ==
    s.kind = "PredicateSpec" \/ (s.kind = "ValidatorSpec" /\ SubSpecs(s) = {})

\* C25: every ErrorDetails e of S.validate(v) has a non-empty via that starts
\* with the tag of S and runs through the tags of nested Specs, outermost
\* first; e.path leads from v to the failing element; a scalar predicate or
\* validator Spec adds its tag to via and nothing to path.
C25_ViaFromRootPathToElement ==
    (op = "validate_all" /\ result.exc = "") =>
        \A i \in 1..Len(result.val) :
           LET e == result.val[i] IN
           /\ e.via # <<>> /\ e.via[1] = spec.tag
           /\ e.via \in TagChains(spec)
           /\ Locates(value, e.path)
           /\ IsScalarSpec(spec) => e.path = <<>> /\ e.via = <<spec.tag>>

\* a predicate Spec whose predicate raised has yielded its one error
C25_Witness ==
    /\ op = "validate_all" /\ result.exc = ""
    /\ spec.kind = "PredicateSpec"
    /\ PredApply(spec.pred, value) \notin {"true", "false"}
    /\ Len(result.val) = 1
    /\ result.val[1].via = <<>>

(***************************************************************************)
(* C26: composed conformers stop at INVALID.                               *)
(***************************************************************************)
\* the conformer is a composition: do_conform of compose_conformers or
\* conform_spec of Spec.compose_conformer
IsComposed(c) == c.fn \in {"do_conform", "conform_spec"}
StepsOf(c) == IF c.fn = "do_conform" THEN c.conformers ELSE <<c.existing, c.conformer>>
\* the steps in order, each on the result of the one before, up to the first
\* that returns INVALID (or raises)
RECURSIVE ShortCircuit(_, _, _)
ShortCircuit(cs, v, i) ==
    IF i > Len(cs) THEN Ok(v, <<>>)
    ELSE LET r == call_conformer(cs[i], v) IN
         IF r.exc # "" \/ r.val = INVALID THEN r
         ELSE After(r.ev, ShortCircuit(cs, r.val, i + 1))
\* some step of the composition returns INVALID on the value it is given
RECURSIVE StepReturnsInvalid(_, _, _)
StepReturnsInvalid(cs, v, i) ==
    /\ i <= Len(cs)
    /\ LET r == call_conformer(cs[i], v) IN
       /\ r.exc = ""
       /\ r.val = INVALID \/ StepReturnsInvalid(cs, r.val, i + 1)

\* C26: a composed conformer runs its steps in order and stops at the first
\* that returns INVALID: no later conformer is invoked and the result is
\* INVALID, for compose_conformers and for Spec.compose_conformer.
C26_ComposedConformersShortCircuit ==
    (op = "conform_valid" /\ IsSpec(spec) /\ IsComposed(spec.conformer)) =>
        result = After(<<Conf(spec.conformer.fn, value)>>,
                       ShortCircuit(StepsOf(spec.conformer), value, 1))

\* the first conformer of a Spec.compose_conformer composition has returned
\* INVALID and conform_valid has gone on to the second
C26_Witness ==
    /\ op = "conform_valid" /\ IsSpec(spec)
    /\ spec.conformer.fn = "conform_spec"
    /\ StepReturnsInvalid(StepsOf(spec.conformer), value, 1)
    /\ \E i \in 1..Len(result.ev) : result.ev[i] = Conf(spec.conformer.conformer.fn, INVALID)

(***************************************************************************)
(* C27: conformance does not validate again.                               *)
(***************************************************************************)
\* the validate bodies and predicates that ran in the events ev
ValidationsRun(ev) == SelectSeq(ev, LAMBDA x : x[1] = "call")
\* what S.conform(v) ran after its validation pass, the is_valid(v) it opens with
AfterValidationPass ==
    SubSeq(result.ev, Len(is_valid(spec, value).ev) + 1, Len(result.ev))

\* C27: S.conform_valid(v) runs no validate and no is_valid, of S or of any
\* child, and S.conform(v) runs one validation pass and after it conformers
\* only, so no node validates its value twice in one conform call.
C27_ConformanceNeverValidatesAgain ==
    /\ (op = "conform_valid" /\ IsSpec(spec)) => ValidationsRun(result.ev) = <<>>
    /\ (op = "conform" /\ IsSpec(spec) /\ result.exc = "") =>
          ValidationsRun(AfterValidationPass) = <<>>

\* a valid collection has been conformed by its default conformer: the
\* validation pass has validated every element, and the conformer has run
\* the validation of an element again
C27_Witness ==
    /\ op = "conform" /\ spec.kind = "CollSpec" /\ result.exc = ""
    /\ spec.conformer.fn = "conform_coll"
    /\ result.val # INVALID
    /\ \E i \in 1..Len(AfterValidationPass) :
          /\ AfterValidationPass[i][1] = "call"
          /\ \E j \in 1..Len(is_valid(spec, value).ev) :
                is_valid(spec, value).ev[j] = AfterValidationPass[i]

(***************************************************************************)
(* C28: is_valid stops at the first failure.                               *)
(***************************************************************************)
\* nilable(S).is_valid(v) has returned False for a v that is not None
NilableRejected ==
    /\ op = "is_valid" /\ IsNilable /\ value # None
    /\ result.exc = "" /\ result.val = PyBool(FALSE)
    /\ is_valid(Wrapped, value).exc = ""
\* what a lazy nilable(S).is_valid(v) runs: nil_or_pred, then S.validate(v) up
\* to its first error, which is what S.is_valid(v) runs
RunUpToFirstError == <<Call(spec.tag, value)>> \o is_valid(Wrapped, value).ev

\* C28: once the first ErrorDetails of S.validate(v) has been produced,
\* is_valid returns False and nothing more is evaluated, for combinators as
\* for every other Spec: nilable(S).is_valid(v) evaluates no predicate,
\* validator, element or constituent Spec beyond those S.validate(v) runs up
\* to its first error.
C28_IsValidStopsAtFirstFailure ==
    NilableRejected => result.ev = RunUpToFirstError

\* nilable(S).is_valid(v) has returned False after evaluating more than
\* S.is_valid(v) does
C28_Witness ==
    /\ NilableRejected
    /\ Len(result.ev) > Len(RunUpToFirstError)
    /\ SubSeq(result.ev, 1, Len(RunUpToFirstError)) = RunUpToFirstError

(***************************************************************************)
(* C29: a child's failure is not a shape error of its parent.              *)
(***************************************************************************)
\* e is the shape error a mapping or tuple Spec tagged tag yields for its subject
IsShapeErrorOf(e, tag) ==
    /\ e.message \in {"Value is not a mapping type", "Value is not a tuple type"}
    /\ e.via = <<tag>>
    /\ e.path = <<>>
\* the subject has the shape the Spec asks for: a mapping for a mapping Spec,
\* a tuple or list of the right size for a tuple Spec
SubjectHasShape ==
    \/ spec.kind = "DictSpec" /\ TypeOf(value) = "dict"
    \/ /\ spec.kind = "TupleSpec" /\ TypeOf(value) \in {"tuple", "list"}
       /\ PyLen(value) = Len(spec.specs)
\* the children of the Spec that meet a part of the subject, each with the key
\* or index of that part and the part
ChildSubjects ==
    IF spec.kind = "DictSpec"
    THEN {<<spec.keyspecs[i].key, spec.keyspecs[i].spec,
            PyGetItem(value, spec.keyspecs[i].key).val>> :
             i \in {j \in 1..Len(spec.keyspecs) :
                       PyContains(value, spec.keyspecs[j].key) = "true"}}
    ELSE {<<PyInt(i - 1), spec.specs[i], PyIter(value)[i]>> : i \in 1..Len(spec.specs)}
\* the child's own validate raises on its part of the subject
ChildRaises(c) == Raised(validate(c[2], c[3]))

\* C29: when the subject of a mapping or tuple Spec has the right shape, no
\* error is the Spec's own 'Value is not a mapping type' / 'Value is not a
\* tuple type' error, and a child whose validation fails by raising is
\* reported by an error whose path starts with the child's key or index.
C29_ChildFailureIsNotParentShapeError ==
    (op = "validate_all" /\ IsSpec(spec) /\ spec.kind \in {"DictSpec", "TupleSpec"}
     /\ SubjectHasShape /\ result.exc = "") =>
        /\ \A i \in 1..Len(result.val) : ~IsShapeErrorOf(result.val[i], spec.tag)
        /\ \A c \in ChildSubjects :
              ChildRaises(c) =>
                 \E i \in 1..Len(result.val) :
                    result.val[i].path # <<>> /\ result.val[i].path[1] = c[1]

\* a mapping has a non-iterable value under a key whose Spec is a collection
\* Spec, and validate has yielded a shape error for the mapping
C29_Witness ==
    /\ op = "validate_all" /\ spec.kind = "DictSpec" /\ SubjectHasShape
    /\ result.exc = ""
    /\ \E c \in ChildSubjects : ChildRaises(c) /\ c[2].kind = "CollSpec"
    /\ \E i \in 1..Len(result.val) : IsShapeErrorOf(result.val[i], spec.tag)

=============================================================================
